---- MODULE Spec2Model ----
(***************************************************************************)
(* Model of the day2 document question-answering pipeline:                 *)
(*   DocumentProcessor   (src/day2/document_processor.py)                  *)
(*   VectorStoreManager  (src/day2/vector_store_manager.py)                *)
(*   DocumentQAAgent     (src/day2/doc_qa_agent.py)                        *)
(*                                                                         *)
(* Text is a sequence of one-character strings; a page marker "[PAGE_n]"   *)
(* is one token of the input text.  Embedding vectors are tuples of small  *)
(* integers, distances are squared L2 distances (what IndexFlatL2 reports) *)
(* and a similarity 1 / (1 + d) is kept in millionths.                     *)
(*                                                                         *)
(* The specifications share the variables:                               *)
(*   SpecChunk   the chunker as a function of its input text,              *)
(*   SpecSentences  the chunker on texts of a few sentences,               *)
(*   Spec        one VectorStoreManager and the directory it saves to,     *)
(*   SpecSearch  retrieval from a store grown by add_documents,            *)
(*   SpecFault   loading from a directory with missing files,              *)
(*   SpecAgent   one DocumentQAAgent session with its saved stores,        *)
(*   SpecDialog  the questions and answers of one session,                 *)
(*   SpecConfidence  the confidence estimate of an answer,                 *)
(*   SpecAdvisor the memory of a day1 HelloAdvisor (src/day1), exported    *)
(*               and imported by a new agent,                              *)
(*   SpecMemory  one MemoryManager under add_interaction, clear and        *)
(*               import_memory.                                            *)
(***************************************************************************)
EXTENDS Integers, Sequences, FiniteSets, TLC

VARIABLES
    index,                  \* VectorStoreManager.index: the vectors in the flat L2 index, by label
    chunks,                 \* VectorStoreManager.chunks
    embeddings,             \* VectorStoreManager.embeddings
    disk,                   \* the three artifacts of the saved store in the save directory
    chunk_size,             \* DocumentProcessor.chunk_size
    chunk_overlap,          \* DocumentProcessor.chunk_overlap
    min_chunk_size,         \* DocumentProcessor.min_chunk_size
    documents_loaded,       \* DocumentQAAgent.session_info['documents_loaded']
    total_chunks,           \* DocumentQAAgent.session_info['total_chunks']
    queries_processed,      \* DocumentQAAgent.session_info['queries_processed']
    conversation_history,   \* DocumentQAAgent.conversation_history
    memory,                 \* HelloAdvisor.memory of the agent in use: its MemoryManager
    exported,               \* the JSON document get_memory_export returned
    advisor,                \* the HelloAdvisor in use: "agent" or the "new_agent" that imported
    ret                     \* the last call: its name, arguments, outcome and external calls

vars == <<index, chunks, embeddings, disk, chunk_size, chunk_overlap, min_chunk_size,
          documents_loaded, total_chunks, queries_processed, conversation_history,
          memory, exported, advisor, ret>>

storeVars == <<index, chunks, embeddings, disk>>
processorVars == <<chunk_size, chunk_overlap, min_chunk_size>>
sessionVars == <<documents_loaded, total_chunks, queries_processed, conversation_history>>
advisorVars == <<memory, exported, advisor>>

(***************************************************************************)
(* Bounds of the model.                                                    *)
(***************************************************************************)
MaxTextLen == 4         \* longest input text of chunk_text, in tokens
MaxChunkSize == 3       \* largest chunk_size / min_chunk_size tried by SpecChunk

(***************************************************************************)
(* Generic helpers.                                                        *)
(***************************************************************************)
Range(s) == {s[i] : i \in 1..Len(s)}

SeqsUpTo(S, n) == UNION {[1..m -> S] : m \in 0..n}

RECURSIVE Join(_, _)
\* str.join: the parts with the separator between consecutive parts
Join(parts, sep) ==
    IF parts = <<>> THEN <<>>
    ELSE IF Len(parts) = 1 THEN parts[1]
    ELSE parts[1] \o sep \o Join(Tail(parts), sep)

\* no call is under way: the caller is about to make its next call
NoCall == [op |-> "none", args |-> <<>>, raised |-> "", value |-> <<>>, calls |-> {}]

(***************************************************************************)
(* DocumentProcessor                                                       *)
(***************************************************************************)
Markers == <<"[PAGE_1]", "[PAGE_2]">>
Alphabet == {"a", ".", " ", "#"}
IsMarker(t) == \E n \in 1..Len(Markers) : Markers[n] = t
MarkerNum(t) == CHOOSE n \in 1..Len(Markers) : Markers[n] = t
IsSpace(c) == c \in {" ", "\n"}
IsTerminator(c) == c \in {".", "!", "?"}
\* the characters re.sub(r'[^\w\s\.\,\?\!\:\;\-\(\)\[\]\n]', '', text) keeps
IsKept(c) == c \in {"a", ".", ",", "?", "!", ":", ";", "-", "(", ")", "[", "]", " ", "\n"}

DocumentChunk(content, metadata, chunkId) ==
    [content |-> content, metadata |-> metadata, chunk_id |-> chunkId]

RECURSIVE PairPages(_, _)
\* re.split(r'\[PAGE_(\d+)\]', text) and the pairing loop: one (page_num, page_text)
\* per marker; the text in front of the first marker belongs to no pair
PairPages(pairs, text) ==
    IF text = <<>> THEN pairs
    ELSE IF IsMarker(Head(text))
       THEN PairPages(Append(pairs, [page_num |-> MarkerNum(Head(text)), page_text |-> <<>>]),
                      Tail(text))
    ELSE IF pairs = <<>> THEN PairPages(pairs, Tail(text))
    ELSE PairPages([pairs EXCEPT ![Len(pairs)].page_text = Append(@, Head(text))], Tail(text))

page_contents(text) ==
    LET pairs == PairPages(<<>>, text)
    IN IF pairs = <<>> THEN <<[page_num |-> 1, page_text |-> text]>> ELSE pairs

RECURSIVE CollapseSpace(_)
\* re.sub(r'\s+', ' ', text)
CollapseSpace(text) ==
    IF text = <<>> THEN <<>>
    ELSE LET rest == CollapseSpace(Tail(text))
         IN IF IsSpace(Head(text))
               THEN IF rest # <<>> /\ rest[1] = " " THEN rest ELSE <<" ">> \o rest
               ELSE <<Head(text)>> \o rest

RECURSIVE Strip(_)
\* str.strip()
Strip(text) ==
    IF text = <<>> THEN <<>>
    ELSE IF IsSpace(Head(text)) THEN Strip(Tail(text))
    ELSE IF IsSpace(text[Len(text)]) THEN Strip(SubSeq(text, 1, Len(text) - 1))
    ELSE text

\* the whitespace runs are collapsed before the special characters are removed,
\* so a removed character can leave two spaces next to each other; no newline
\* is left for the third substitution (r'\n{3,}') to act on
clean_text(text) == Strip(SelectSeq(CollapseSpace(text), IsKept))

RECURSIVE SplitLoop(_, _, _, _, _)
\* re.split(r'(?<=[.!?])\s+', s): a whitespace run that follows a terminator
\* separates two sentences and belongs to neither.  done: the sentences closed so
\* far, cur: the open sentence, gap: inside a separating run, last: the character
\* in front of the rest
SplitLoop(done, cur, gap, last, rest) ==
    IF rest = <<>> THEN Append(done, cur)
    ELSE LET c == Head(rest)
         IN IF IsSpace(c) /\ gap THEN SplitLoop(done, cur, TRUE, c, Tail(rest))
            ELSE IF IsSpace(c) /\ IsTerminator(last)
               THEN SplitLoop(Append(done, cur), <<>>, TRUE, c, Tail(rest))
            ELSE SplitLoop(done, Append(cur, c), FALSE, c, Tail(rest))

split_sentences(s) == SplitLoop(<<>>, <<>>, FALSE, "", s)

MakeChunk(chunkText, source, pageNum, chunkIndex) ==
    DocumentChunk(chunkText,
                  [source |-> source, page |-> pageNum,
                   chunk_index |-> chunkIndex, char_count |-> Len(chunkText)],
                  <<source, "_page", pageNum, "_chunk", chunkIndex>>)

\* EmitBuffer without the min_chunk_size test
EmitBuffer_NoMinSize(st, source, pageNum, minSize) ==
    LET chunkText == Join(st.current_chunk, <<" ">>)
    IN [st EXCEPT !.chunks = Append(@, MakeChunk(chunkText, source, pageNum, st.chunk_index)),
                  !.chunk_index = @ + 1]

\* EmitBuffer with chunk_index advanced for a dropped buffer too
EmitBuffer_IndexOnDrop(st, source, pageNum, minSize) ==
    LET chunkText == Join(st.current_chunk, <<" ">>)
    IN IF Len(chunkText) >= minSize
          THEN [st EXCEPT !.chunks = Append(@, MakeChunk(chunkText, source, pageNum, st.chunk_index)),
                          !.chunk_index = @ + 1]
          ELSE [st EXCEPT !.chunk_index = @ + 1]

\* lines 172-186 and 203-216: the buffer becomes a chunk when it is long enough
EmitBuffer(st, source, pageNum, minSize) ==
    LET chunkText == Join(st.current_chunk, <<" ">>)
    IN IF Len(chunkText) >= minSize
          THEN [st EXCEPT !.chunks = Append(@, MakeChunk(chunkText, source, pageNum, st.chunk_index)),
                          !.chunk_index = @ + 1]
          ELSE st

\* SeedBuffer with the last sentence of the closed buffer kept in front of the
\* new one when the closed buffer is no longer than chunk_overlap
SeedBuffer_KeepOverlap(st, sentence, overlap) ==
    LET overlap_text == Join(st.current_chunk, <<" ">>)
        last == st.current_chunk[Len(st.current_chunk)]
    IN IF Len(overlap_text) > overlap
          THEN [st EXCEPT !.current_chunk = <<sentence>>,
                          !.current_length = Len(sentence)]
          ELSE [st EXCEPT !.current_chunk = <<last, sentence>>,
                          !.current_length = Len(last) + 1 + Len(sentence)]

\* lines 188-196: the buffer that follows an overflow holds the sentence that
\* overflowed, whichever side of chunk_overlap the closed buffer is on
SeedBuffer(st, sentence, overlap) ==
    LET overlap_text == Join(st.current_chunk, <<" ">>)
    IN IF Len(overlap_text) > overlap
          THEN [st EXCEPT !.current_chunk = <<sentence>>,
                          !.current_length = Len(sentence)]
          ELSE [st EXCEPT !.current_chunk = <<sentence>>,
                          !.current_length = Len(sentence)]

RECURSIVE SentenceLoop(_, _, _, _, _, _, _)
\* the loop over the sentences of one page (lines 167-199)
SentenceLoop(st, sentences, source, pageNum, size, overlap, minSize) ==
    IF sentences = <<>> THEN st
    ELSE LET sentence == Head(sentences)
             sentence_length == Len(sentence)
             next ==
                IF st.current_length + sentence_length > size /\ st.current_chunk # <<>>
                   THEN SeedBuffer(EmitBuffer(st, source, pageNum, minSize), sentence, overlap)
                   ELSE [st EXCEPT !.current_chunk = Append(@, sentence),
                                   !.current_length = @ + sentence_length + 1]
         IN SentenceLoop(next, Tail(sentences), source, pageNum, size, overlap, minSize)

\* StartPage with the buffer of the page before left in place
StartPage_CarryBuffer(st) == st

\* lines 164-165: every page starts with an empty buffer
StartPage(st) == [st EXCEPT !.current_chunk = <<>>, !.current_length = 0]

RECURSIVE PageLoop(_, _, _, _, _, _)
\* the loop over the pages (lines 158-216); chunk_index runs on across pages
PageLoop(st, pages, source, size, overlap, minSize) ==
    IF pages = <<>> THEN st
    ELSE LET page == Head(pages)
             sentences == split_sentences(clean_text(page.page_text))
             after == SentenceLoop(StartPage(st), sentences, source, page.page_num,
                                   size, overlap, minSize)
             closed == IF after.current_chunk # <<>>
                          THEN EmitBuffer(after, source, page.page_num, minSize)
                          ELSE after
         IN PageLoop(closed, Tail(pages), source, size, overlap, minSize)

\* DocumentProcessor.chunk_text of a processor with the given configuration
chunk_text_of(text, source, size, overlap, minSize) ==
    PageLoop([chunks |-> <<>>, chunk_index |-> 0, current_chunk |-> <<>>, current_length |-> 0],
             page_contents(text), source, size, overlap, minSize).chunks

(***************************************************************************)
(* VectorStoreManager                                                      *)
(***************************************************************************)
dimension == 2          \* VectorStoreManager.dimension, scaled down from 1536
BatchSize == 2          \* batch_size of create_embeddings_batch, scaled down from 100
MaxStore == 3           \* most chunks (and vectors) one store is grown to
MaxK == 4               \* largest k asked of search
MaxContextLength == 3   \* largest max_context_length asked of get_context_for_query

FltMax == 1000000000    \* stands for FLT_MAX, the distance faiss reports with label -1
SimScale == 1000000     \* similarities are kept in millionths

embedding_model == "text-embedding-3-small"

CountOf(c, text) == Cardinality({j \in 1..Len(text) : text[j] = c})

\* client.embeddings.create: the embedding service gives one text one vector of
\* the model's dimension, the same vector every time
EmbeddingOf(text) ==
    [i \in 1..dimension |-> IF i = 1 THEN Len(text) ELSE CountOf("a", SubSeq(text, i - 1, Len(text)))]

ZeroVector == [i \in 1..dimension |-> 0]

\* create_embeddings_batch giving a failed batch one zero-vector only
create_embeddings_batch_OneZero(texts, batch_size, failed) ==
    LET kept == {p \in 1..Len(texts) :
                    ((p - 1) \div batch_size) + 1 \notin failed \/ (p - 1) % batch_size = 0}
        nth(n) == CHOOSE p \in kept : Cardinality({r \in kept : r < p}) = n - 1
    IN [n \in 1..Cardinality(kept) |->
            IF ((nth(n) - 1) \div batch_size) + 1 \in failed
               THEN ZeroVector ELSE EmbeddingOf(texts[nth(n)])]

\* create_embeddings_batch (lines 125-142): the texts are sent batch by batch;
\* failed is the set of batch numbers (i // batch_size + 1) whose request fails
create_embeddings_batch(texts, batch_size, failed) ==
    [p \in 1..Len(texts) |->
        IF ((p - 1) \div batch_size) + 1 \in failed THEN ZeroVector ELSE EmbeddingOf(texts[p])]

BatchNumbers(n, batch_size) == 1..((n + batch_size - 1) \div batch_size)

RECURSIVE SquaredL2(_, _)
\* the distance of IndexFlatL2: the squared Euclidean distance
SquaredL2(x, y) ==
    IF x = <<>> THEN 0
    ELSE (x[1] - y[1]) * (x[1] - y[1]) + SquaredL2(Tail(x), Tail(y))

RECURSIVE NearestLabels(_, _, _)
\* index.search: the labels (from 0) of the k nearest vectors with their
\* distances, nearest first, equal distances by label; when the index holds fewer
\* than k vectors the rest of the answer is label -1 at distance FLT_MAX.
\* dist[p] is the distance of the vector at position p, taken the positions
\* already in the answer
NearestLabels(dist, k, taken) ==
    IF k = 0 THEN <<>>
    ELSE LET left == (1..Len(dist)) \ taken
         IN IF left = {}
               THEN [i \in 1..k |-> [distance |-> FltMax, label |-> -1]]
               ELSE LET best == CHOOSE p \in left : \A r \in left :
                                    dist[p] < dist[r] \/ (dist[p] = dist[r] /\ p <= r)
                    IN <<[distance |-> dist[best], label |-> best - 1]>>
                          \o NearestLabels(dist, k - 1, taken \cup {best})

\* index.search answering with the first k labels in storage order
index_search_StorageOrder(ix, q, k) ==
    [i \in 1..k |-> IF i <= Len(ix) THEN [distance |-> SquaredL2(ix[i], q), label |-> i - 1]
                                     ELSE [distance |-> FltMax, label |-> -1]]

index_search(ix, q, k) == NearestLabels([p \in 1..Len(ix) |-> SquaredL2(ix[p], q)], k, {})

\* a Python list subscript: a negative subscript counts from the end
PyItem(list, idx) == IF idx >= 0 THEN list[idx + 1] ELSE list[Len(list) + idx + 1]

\* similarity = 1 / (1 + distance), in millionths
Similarity(distance) == SimScale \div (1 + distance)

\* the test of line 220
ValidIndex(idx, n) == idx < n

RECURSIVE PrepareResults(_, _)
\* the loop of lines 218-226 over the answer of the index
PrepareResults(found, cs) ==
    IF found = <<>> THEN <<>>
    ELSE LET idx == Head(found).label
         IN (IF ValidIndex(idx, Len(cs))
                THEN <<[chunk |-> PyItem(cs, idx), similarity |-> Similarity(Head(found).distance)]>>
                ELSE <<>>)
            \o PrepareResults(Tail(found), cs)

\* VectorStoreManager.search once the query is embedded (lines 210-228)
search_results(ix, cs, query, k) == PrepareResults(index_search(ix, EmbeddingOf(query), k), cs)

\* round(similarity, 3), in thousandths; a tie goes to the even neighbour
Round3(similarity) ==
    LET q == similarity \div 1000
        r == similarity % 1000
    IN IF r > 500 THEN q + 1
       ELSE IF r < 500 THEN q
       ELSE IF q % 2 = 0 THEN q ELSE q + 1

Delimiter == <<"\n", "\n", "-", "-", "-", "\n", "\n">>

RECURSIVE ContextLoop(_, _, _)
\* the loop of lines 256-272: it ends at the first chunk that does not fit
ContextLoop(acc, results, max_context_length) ==
    IF results = <<>> THEN acc
    ELSE LET chunk == Head(results).chunk
             chunk_length == Len(chunk.content)
         IN IF acc.current_length + chunk_length > max_context_length THEN acc
            ELSE ContextLoop([context_parts |-> Append(acc.context_parts, chunk.content),
                              sources |-> Append(acc.sources,
                                                 [source |-> chunk.metadata.source,
                                                  page |-> chunk.metadata.page,
                                                  similarity |-> Round3(Head(results).similarity)]),
                              current_length |-> acc.current_length + chunk_length],
                             Tail(results), max_context_length)

RECURSIVE SkipLoop(_, _, _)
\* a loop that passes over a chunk that does not fit and goes on
SkipLoop(acc, results, max_context_length) ==
    IF results = <<>> THEN acc
    ELSE LET chunk == Head(results).chunk
             chunk_length == Len(chunk.content)
         IN IF acc.current_length + chunk_length > max_context_length
               THEN SkipLoop(acc, Tail(results), max_context_length)
            ELSE SkipLoop([context_parts |-> Append(acc.context_parts, chunk.content),
                           sources |-> Append(acc.sources,
                                              [source |-> chunk.metadata.source,
                                               page |-> chunk.metadata.page,
                                               similarity |-> Round3(Head(results).similarity)]),
                           current_length |-> acc.current_length + chunk_length],
                          Tail(results), max_context_length)

context_of_SkipUnfit(results, max_context_length) ==
    IF results = <<>> THEN [context |-> <<>>, sources |-> <<>>]
    ELSE LET acc == SkipLoop([context_parts |-> <<>>, sources |-> <<>>, current_length |-> 0],
                             results, max_context_length)
         IN [context |-> Join(acc.context_parts, Delimiter), sources |-> acc.sources]

\* get_context_for_query from the results of search (lines 249-275)
context_of(results, max_context_length) ==
    IF results = <<>> THEN [context |-> <<>>, sources |-> <<>>]
    ELSE LET acc == ContextLoop([context_parts |-> <<>>, sources |-> <<>>, current_length |-> 0],
                                results, max_context_length)
         IN [context |-> Join(acc.context_parts, Delimiter), sources |-> acc.sources]

Absent == [exists |-> FALSE, data |-> <<>>]
File(data) == [exists |-> TRUE, data |-> data]

\* the chunks handed to add_documents
cA == MakeChunk(<<"a", ".">>, "a.pdf", 1, 0)
cB == MakeChunk(<<".">>, "a.pdf", 2, 1)
cC == MakeChunk(<<"a", "a", ".">>, "b.pdf", 1, 0)
\* the lists handed to add_documents: the chunks of a.pdf, of b.pdf, and of both
ChunkLists == {<<>>, <<cA, cB>>, <<cC>>, <<cA, cB, cC>>, <<cC, cA, cB>>}
Queries == {<<"a">>, <<".">>}

Call(op, args, raised, value, calls) ==
    [op |-> op, args |-> args, raised |-> raised, value |-> value, calls |-> calls]

\* calls are synchronous and made one after the other: a call is made when the
\* caller holds no pending result, and ret keeps the result until the caller has
\* taken it (the command loop prints it and reads its next input)
Idle == ret.op = "none"

Return ==
    /\ ~Idle
    /\ ret' = NoCall
    /\ UNCHANGED <<storeVars, processorVars, advisorVars, sessionVars>>

\* VectorStoreManager.__init__: the state of a new store
InitStore ==
    /\ index = <<>>
    /\ chunks = <<>>
    /\ embeddings = <<>>

\* a new VectorStoreManager in the same process or a later one; the directory stays
NewStore ==
    /\ Idle
    /\ index' = <<>>
    /\ chunks' = <<>>
    /\ embeddings' = <<>>
    /\ ret' = Call("__init__", <<>>, "", <<>>, {})
    /\ UNCHANGED <<disk, processorVars, advisorVars, sessionVars>>

\* VectorStoreManager.add_documents (lines 159-187)
AddDocuments ==
    /\ Idle
    /\ \E cs \in {l \in ChunkLists : Len(chunks) + Len(l) <= MaxStore
                                     /\ Len(embeddings) + Len(l) <= MaxStore} :
      \E failed \in SUBSET BatchNumbers(Len(cs), BatchSize) :
        /\ IF cs = <<>>
              THEN /\ failed = {}
                   /\ UNCHANGED <<index, chunks, embeddings>>
                   /\ ret' = Call("add_documents", <<cs, failed>>, "", <<>>, {})
              ELSE LET texts == [i \in 1..Len(cs) |-> cs[i].content]
                       embs == create_embeddings_batch(texts, BatchSize, failed)
                   IN /\ index' = index \o embs
                      /\ chunks' = chunks \o cs
                      /\ embeddings' = embeddings \o embs
                      /\ ret' = Call("add_documents", <<cs, failed>>, "", <<>>, {"embeddings.create"})
        /\ UNCHANGED <<disk, processorVars, advisorVars, sessionVars>>

\* search that embeds the query before it looks at the chunk list
search_EmbedFirst(ix, cs, query, k, served) ==
    IF ~served THEN [raised |-> "Exception", value |-> <<>>, calls |-> {"embeddings.create"}]
    ELSE [raised |-> "", value |-> search_results(ix, cs, query, k), calls |-> {"embeddings.create"}]

\* VectorStoreManager.search (lines 204-228): its result, the exception it raises
\* and the external calls it makes; create_embedding raises when the embedding
\* service fails (served = FALSE)
search(ix, cs, query, k, served) ==
    IF cs = <<>> THEN [raised |-> "", value |-> <<>>, calls |-> {}]
    ELSE IF ~served
       THEN [raised |-> "Exception", value |-> <<>>, calls |-> {"embeddings.create"}]
    ELSE [raised |-> "", value |-> search_results(ix, cs, query, k), calls |-> {"embeddings.create"}]

\* VectorStoreManager.get_context_for_query (lines 247-275), found being what its
\* call of search gives
get_context_for_query(found, max_context_length) ==
    IF found.raised # "" THEN found
    ELSE [raised |-> "",
          value |-> context_of(found.value, max_context_length),
          calls |-> found.calls]

Search ==
    /\ Idle
    /\ \E query \in Queries : \E k \in 1..MaxK : \E served \in BOOLEAN :
        LET out == search(index, chunks, query, k, served)
        IN /\ ret' = Call("search", <<query, k>>, out.raised, out.value, out.calls)
           /\ UNCHANGED <<storeVars, processorVars, advisorVars, sessionVars>>

GetContextForQuery ==
    /\ Idle
    /\ \E query \in Queries : \E k \in 1..MaxK : \E m \in 0..MaxContextLength : \E served \in BOOLEAN :
        LET out == get_context_for_query(search(index, chunks, query, k, served), m)
        IN /\ ret' = Call("get_context_for_query", <<query, k, m>>,
                          out.raised, out.value, out.calls)
           /\ UNCHANGED <<storeVars, processorVars, advisorVars, sessionVars>>

\* VectorStoreManager.save (lines 291-314): the index, the chunk list and the metadata
Save ==
    /\ Idle
    /\ disk' = [faiss |-> File(index),
                pkl |-> File(chunks),
                json |-> File([embedding_model |-> embedding_model,
                               dimension |-> dimension,
                               num_chunks |-> Len(chunks),
                               num_embeddings |-> Len(embeddings)])]
    /\ ret' = Call("save", <<>>, "", <<>>, {})
    /\ UNCHANGED <<index, chunks, embeddings, processorVars, advisorVars, sessionVars>>

\* load that reads the index and leaves the chunk list as it is
Load_IndexOnly ==
    /\ Idle
    /\ IF ~disk.faiss.exists
          THEN /\ UNCHANGED <<index, chunks>>
               /\ ret' = Call("load", <<>>, "FileNotFoundError", <<>>, {})
       ELSE IF ~disk.pkl.exists \/ ~disk.json.exists
          THEN /\ index' = disk.faiss.data
               /\ UNCHANGED chunks
               /\ ret' = Call("load", <<>>, "FileNotFoundError", <<>>, {})
       ELSE /\ index' = disk.faiss.data
            /\ UNCHANGED chunks
            /\ ret' = Call("load", <<>>, "", disk.json.data.num_chunks, {})
    /\ UNCHANGED <<embeddings, disk, processorVars, advisorVars, sessionVars>>

\* load that does without the metadata file
Load_MetadataOptional ==
    /\ Idle
    /\ IF ~disk.faiss.exists
          THEN /\ UNCHANGED <<index, chunks>>
               /\ ret' = Call("load", <<>>, "FileNotFoundError", <<>>, {})
       ELSE IF ~disk.pkl.exists
          THEN /\ index' = disk.faiss.data
               /\ UNCHANGED chunks
               /\ ret' = Call("load", <<>>, "FileNotFoundError", <<>>, {})
       ELSE /\ index' = disk.faiss.data
            /\ chunks' = disk.pkl.data
            /\ ret' = Call("load", <<>>, "", Len(disk.pkl.data), {})
    /\ UNCHANGED <<embeddings, disk, processorVars, advisorVars, sessionVars>>

\* VectorStoreManager.load (lines 332-351): the index is replaced before the chunk
\* file is opened, the chunk list before the metadata file is opened
Load ==
    /\ Idle
    /\ IF ~disk.faiss.exists
          THEN /\ UNCHANGED <<index, chunks>>
               /\ ret' = Call("load", <<>>, "FileNotFoundError", <<>>, {})
       ELSE IF ~disk.pkl.exists
          THEN /\ index' = disk.faiss.data
               /\ UNCHANGED chunks
               /\ ret' = Call("load", <<>>, "FileNotFoundError", <<>>, {})
       ELSE IF ~disk.json.exists
          THEN /\ index' = disk.faiss.data
               /\ chunks' = disk.pkl.data
               /\ ret' = Call("load", <<>>, "FileNotFoundError", <<>>, {})
       ELSE /\ index' = disk.faiss.data
            /\ chunks' = disk.pkl.data
            /\ ret' = Call("load", <<>>, "", disk.json.data.num_chunks, {})
    /\ UNCHANGED <<embeddings, disk, processorVars, advisorVars, sessionVars>>

\* VectorStoreManager.get_stats (lines 360-366)
stats == [total_chunks |-> Len(chunks),
          total_embeddings |-> Len(embeddings),
          embedding_model |-> embedding_model,
          dimension |-> dimension,
          index_size |-> Len(index)]

GetStats ==
    /\ Idle
    /\ ret' = Call("get_stats", <<>>, "", stats, {})
    /\ UNCHANGED <<storeVars, processorVars, advisorVars, sessionVars>>

(***************************************************************************)
(* DocumentQAAgent                                                         *)
(***************************************************************************)
MaxDocs == 2            \* most entries documents_loaded is grown to
MaxHistory == 2         \* most entries conversation_history is grown to

\* the PDF files of the environment: the text PdfReader extracts from each page
PdfPaths == {"a.pdf", "b.pdf", "docs/b.pdf", "short.pdf", "scan.pdf", "missing.pdf"}
PdfExists(path) == path # "missing.pdf"
PdfPages(path) ==
    CASE path = "a.pdf" -> << <<"a", ".">>, <<".">> >>
      [] path = "b.pdf" -> << <<"a", "a", "a", ".">> >>
      [] path = "docs/b.pdf" -> << <<".">> >>
      [] path = "short.pdf" -> << <<"#">> >>
      [] OTHER -> << <<>> >>

\* Path(file_path).name
PathName(path) == IF path = "docs/b.pdf" THEN "b.pdf" ELSE path

RECURSIVE PagesText(_, _)
\* the loop of lines 85-89: a page with text adds "\n[PAGE_n]\n{page_text}\n"
PagesText(pages, page_num) ==
    IF page_num > Len(pages) THEN <<>>
    ELSE (IF pages[page_num] # <<>>
             THEN <<"\n", Markers[page_num], "\n">> \o pages[page_num] \o <<"\n">>
             ELSE <<>>)
         \o PagesText(pages, page_num + 1)

\* DocumentProcessor.load_pdf (lines 77-97)
load_pdf(path) ==
    IF ~PdfExists(path) THEN [raised |-> "FileNotFoundError", text |-> <<>>]
    ELSE LET text == PagesText(PdfPages(path), 1)
         IN IF Strip(text) = <<>> THEN [raised |-> "Exception", text |-> <<>>]
            ELSE [raised |-> "", text |-> text]

\* DocumentProcessor.process_document (lines 233-254)
process_document(path, size, overlap, minSize) ==
    LET filename == PathName(path)
        loaded == load_pdf(path)
    IN IF loaded.raised # "" THEN [raised |-> loaded.raised, chunks |-> <<>>, metadata |-> <<>>]
       ELSE LET cs == chunk_text_of(loaded.text, filename, size, overlap, minSize)
            IN [raised |-> "", chunks |-> cs,
                metadata |-> [source |-> filename, total_chunks |-> Len(cs)]]

RECURSIVE process_multiple_documents(_, _, _, _)
\* DocumentProcessor.process_multiple_documents (lines 269-293): a document that
\* fails is left out
process_multiple_documents(paths, size, overlap, minSize) ==
    IF paths = <<>>
       THEN [chunks |-> <<>>,
             metadata |-> [total_documents |-> 0, total_chunks |-> 0, document_metadata |-> <<>>]]
    ELSE LET first == process_document(Head(paths), size, overlap, minSize)
             rest == process_multiple_documents(Tail(paths), size, overlap, minSize)
         IN IF first.raised # "" THEN rest
            ELSE [chunks |-> first.chunks \o rest.chunks,
                  metadata |-> [total_documents |-> 1 + rest.metadata.total_documents,
                                total_chunks |-> Len(first.chunks) + rest.metadata.total_chunks,
                                document_metadata |->
                                    <<first.metadata>> \o rest.metadata.document_metadata]]

\* the lists of paths handed to load_multiple_documents
PathLists == {<<>>, <<"a.pdf", "b.pdf">>, <<"missing.pdf", "b.pdf">>, <<"a.pdf", "scan.pdf">>,
              <<"missing.pdf">>, <<"short.pdf", "missing.pdf">>}

\* the questions asked; the completion service answers with a text of its own
Questions == Queries
CompletionText == "answer"
CompletionError == "completion failed"

NoDocumentsResult ==
    [answer |-> "No documents have been loaded yet. Please load some documents first using the 'load' command.",
     sources |-> <<>>,
     confidence |-> "low",
     error |-> "no_documents"]

NoContextResult ==
    [answer |-> "I couldn't find relevant information in the loaded documents to answer this question.",
     sources |-> <<>>,
     confidence |-> "none",
     error |-> "no_context"]

RECURSIVE SumSimilarity(_)
SumSimilarity(sources) ==
    IF sources = <<>> THEN 0 ELSE Head(sources).similarity + SumSimilarity(Tail(sources))

\* sum(s['similarity'] for s in sources) / len(sources) is computed in double
\* precision from the doubles nearest to the 3-decimal similarities.  Its distance
\* from the exact mean is far below 1/1000, so it lies on the same side of 0.7 and
\* of 0.5 as the exact mean unless the exact mean is 0.7 or 0.5; then it is the
\* threshold itself or a neighbouring double.  These are the lists, over the
\* similarity values of the model and up to 5 sources, whose double-precision mean
\* is the double above the threshold: sum([1.0, 1.0, 0.1]) / 3 and
\* sum([0.937, 0.463]) / 2 are 0.7000000000000001.
MeanRoundedUp ==
    {<<937, 463>>, <<1000, 1000, 100>>, <<937, 700, 463>>, <<937, 463, 100>>,
     <<1000, 1000, 700, 100>>, <<937, 937, 463, 463>>,
     <<1000, 1000, 937, 463, 100>>, <<1000, 1000, 700, 700, 100>>,
     <<1000, 1000, 333, 111, 56>>, <<1000, 1000, 333, 100, 67>>,
     <<1000, 1000, 200, 200, 100>>, <<1000, 700, 500, 200, 100>>,
     <<1000, 463, 463, 463, 111>>, <<937, 937, 500, 67, 59>>,
     <<937, 700, 463, 333, 67>>, <<937, 700, 463, 200, 200>>}

\* avg_similarity > threshold (threshold in thousandths) as line 226 evaluates it
MeanAbove(sources, threshold) ==
    LET total == SumSimilarity(sources)
        n == Len(sources)
    IN /\ n > 0
       /\ \/ total > threshold * n
          \/ /\ total = threshold * n
             /\ [i \in 1..n |-> sources[i].similarity] \in MeanRoundedUp

\* lines 225-226, similarities in thousandths: the mean is compared with 0.7 and 0.5
confidence_of(sources) ==
    IF MeanAbove(sources, 700) THEN "high"
    ELSE IF MeanAbove(sources, 500) THEN "medium"
    ELSE "low"

\* the directory of saved stores, nothing saved yet
InitDisk == disk = [faiss |-> Absent, pkl |-> Absent, json |-> Absent]

\* DocumentQAAgent.__init__ (lines 50-56): the session state
InitSession ==
    /\ documents_loaded = <<>>
    /\ total_chunks = 0
    /\ queries_processed = 0
    /\ conversation_history = <<>>

\* DocumentQAAgent.__init__ (lines 40-56): a new session
InitAgent ==
    /\ InitStore
    /\ InitSession
    /\ chunk_size = 3
    /\ chunk_overlap = 1
    /\ min_chunk_size = 1

\* the part of load_document and load_multiple_documents that is add_documents;
\* the sessions of SpecAgent load with an embedding service that answers (the
\* batches that fail are AddDocuments' in Spec)
StoreAdd(cs, failed) ==
    IF cs = <<>>
       THEN UNCHANGED <<index, chunks, embeddings>>
       ELSE LET texts == [i \in 1..Len(cs) |-> cs[i].content]
                embs == create_embeddings_batch(texts, BatchSize, failed)
            IN /\ index' = index \o embs
               /\ chunks' = chunks \o cs
               /\ embeddings' = embeddings \o embs

\* LoadDocument with the name of the file recorded before the file is processed
LoadDocument_RecordsFirst ==
    /\ Idle
    /\ Len(documents_loaded) < MaxDocs
    /\ \E path \in PdfPaths :
        LET result == process_document(path, chunk_size, chunk_overlap, min_chunk_size)
        IN IF result.raised # ""
              THEN /\ ret' = Call("load_document", <<path>>, result.raised, <<>>, {})
                   /\ documents_loaded' = Append(documents_loaded, PathName(path))
                   /\ UNCHANGED <<storeVars, processorVars, advisorVars, total_chunks,
                                  queries_processed, conversation_history>>
              ELSE /\ Len(chunks) + Len(result.chunks) <= MaxStore
                   /\ Len(embeddings) + Len(result.chunks) <= MaxStore
                   /\ StoreAdd(result.chunks, {})
                   /\ ret' = Call("load_document", <<path>>, "", result.metadata,
                                  IF result.chunks = <<>> THEN {} ELSE {"embeddings.create"})
                   /\ documents_loaded' = Append(documents_loaded, result.metadata.source)
                   /\ total_chunks' = total_chunks + result.metadata.total_chunks
                   /\ UNCHANGED <<disk, processorVars, advisorVars, queries_processed, conversation_history>>

\* DocumentQAAgent.load_document (lines 111-128)
LoadDocument ==
    /\ Idle
    /\ Len(documents_loaded) < MaxDocs
    /\ \E path \in PdfPaths :
        LET result == process_document(path, chunk_size, chunk_overlap, min_chunk_size)
        IN IF result.raised # ""
              THEN /\ ret' = Call("load_document", <<path>>, result.raised, <<>>, {})
                   /\ UNCHANGED <<storeVars, processorVars, advisorVars, sessionVars>>
              ELSE /\ Len(chunks) + Len(result.chunks) <= MaxStore
                   /\ Len(embeddings) + Len(result.chunks) <= MaxStore
                   /\ StoreAdd(result.chunks, {})
                   /\ ret' = Call("load_document", <<path>>, "", result.metadata,
                                  IF result.chunks = <<>> THEN {} ELSE {"embeddings.create"})
                   /\ documents_loaded' = Append(documents_loaded, result.metadata.source)
                   /\ total_chunks' = total_chunks + result.metadata.total_chunks
                   /\ UNCHANGED <<disk, processorVars, advisorVars, queries_processed, conversation_history>>

\* DocumentQAAgent.load_multiple_documents (lines 148-163)
LoadMultipleDocuments ==
    /\ Idle
    /\ \E paths \in PathLists :
        LET result == process_multiple_documents(paths, chunk_size, chunk_overlap, min_chunk_size)
            sources == [i \in 1..Len(result.metadata.document_metadata) |->
                            result.metadata.document_metadata[i].source]
        IN /\ Len(documents_loaded) + Len(sources) <= MaxDocs
           /\ Len(chunks) + Len(result.chunks) <= MaxStore
           /\ Len(embeddings) + Len(result.chunks) <= MaxStore
           /\ IF result.chunks # <<>>
                 THEN /\ StoreAdd(result.chunks, {})
                      /\ ret' = Call("load_multiple_documents", <<paths>>, "",
                                     result.metadata, {"embeddings.create"})
                      /\ documents_loaded' = documents_loaded \o sources
                      /\ total_chunks' = result.metadata.total_chunks
                 ELSE /\ ret' = Call("load_multiple_documents", <<paths>>, "",
                                     result.metadata, {})
                      /\ UNCHANGED <<index, chunks, embeddings, documents_loaded, total_chunks>>
           /\ UNCHANGED <<disk, processorVars, advisorVars, queries_processed, conversation_history>>

\* the values of ask's num_sources: its default 5, and 1; the context limit
\* (4000 for chunks of 1000) is MaxContextLength here
NumSources == {1, 5}

Retrieval == "vector_store.get_context_for_query"
Completion == "chat.completions.create"

ask_NoDocumentsCheck(loaded, ix, cs, question, num_sources, embedded, completed) ==
    LET got == get_context_for_query(search(ix, cs, question, num_sources, embedded),
                                     MaxContextLength)
        calls == got.calls \cup {Retrieval}
    IN IF got.raised # ""
          THEN [raised |-> got.raised, value |-> <<>>, calls |-> calls, entry |-> <<>>]
       ELSE IF got.value.context = <<>>
          THEN [raised |-> "", value |-> NoContextResult, calls |-> calls, entry |-> <<>>]
       ELSE [raised |-> "",
             value |-> [answer |-> CompletionText,
                        sources |-> got.value.sources,
                        confidence |-> confidence_of(got.value.sources),
                        context_used |-> Len(got.value.context)],
             calls |-> calls \cup {Completion},
             entry |-> <<[question |-> question, answer |-> CompletionText,
                          sources |-> got.value.sources, timestamp |-> "now"]>>]

ask_NoContextCheck(loaded, ix, cs, question, num_sources, embedded, completed) ==
    IF loaded = <<>>
       THEN [raised |-> "", value |-> NoDocumentsResult, calls |-> {}, entry |-> <<>>]
    ELSE LET got == get_context_for_query(search(ix, cs, question, num_sources, embedded),
                                          MaxContextLength)
             calls == got.calls \cup {Retrieval}
         IN IF got.raised # ""
               THEN [raised |-> got.raised, value |-> <<>>, calls |-> calls, entry |-> <<>>]
            ELSE IF ~completed
               THEN [raised |-> "",
                     value |-> [answer |-> <<"Error generating answer: ", CompletionError>>,
                                sources |-> <<>>,
                                confidence |-> "error",
                                error |-> CompletionError],
                     calls |-> calls \cup {Completion},
                     entry |-> <<>>]
            ELSE [raised |-> "",
                  value |-> [answer |-> CompletionText,
                             sources |-> got.value.sources,
                             confidence |-> confidence_of(got.value.sources),
                             context_used |-> Len(got.value.context)],
                  calls |-> calls \cup {Completion},
                  entry |-> <<[question |-> question, answer |-> CompletionText,
                               sources |-> got.value.sources, timestamp |-> "now"]>>]

ask_CompletionRaises(loaded, ix, cs, question, num_sources, embedded, completed) ==
    IF loaded = <<>>
       THEN [raised |-> "", value |-> NoDocumentsResult, calls |-> {}, entry |-> <<>>]
    ELSE LET got == get_context_for_query(search(ix, cs, question, num_sources, embedded),
                                          MaxContextLength)
             calls == got.calls \cup {Retrieval}
         IN IF got.raised # ""
               THEN [raised |-> got.raised, value |-> <<>>, calls |-> calls, entry |-> <<>>]
            ELSE IF got.value.context = <<>>
               THEN [raised |-> "", value |-> NoContextResult, calls |-> calls, entry |-> <<>>]
            ELSE IF ~completed
               THEN [raised |-> "Exception", value |-> <<>>,
                     calls |-> calls \cup {Completion}, entry |-> <<>>]
            ELSE [raised |-> "",
                  value |-> [answer |-> CompletionText,
                             sources |-> got.value.sources,
                             confidence |-> confidence_of(got.value.sources),
                             context_used |-> Len(got.value.context)],
                  calls |-> calls \cup {Completion},
                  entry |-> <<[question |-> question, answer |-> CompletionText,
                               sources |-> got.value.sources, timestamp |-> "now"]>>]

\* DocumentQAAgent.ask (lines 184-252): its result,
\* the exception it raises, the calls it makes and the entry it appends to
\* conversation_history; embedded and completed tell whether the embedding and
\* the completion service answer.  The try of lines 211-252 covers the
\* completion only: an exception of get_context_for_query leaves ask.
ask(loaded, ix, cs, question, num_sources, embedded, completed) ==
    IF loaded = <<>>
       THEN [raised |-> "", value |-> NoDocumentsResult, calls |-> {}, entry |-> <<>>]
    ELSE LET got == get_context_for_query(search(ix, cs, question, num_sources, embedded),
                                          MaxContextLength)
             calls == got.calls \cup {Retrieval}
         IN IF got.raised # ""
               THEN [raised |-> got.raised, value |-> <<>>, calls |-> calls, entry |-> <<>>]
            ELSE IF got.value.context = <<>>
               THEN [raised |-> "", value |-> NoContextResult, calls |-> calls, entry |-> <<>>]
            ELSE IF ~completed
               THEN [raised |-> "",
                     value |-> [answer |-> <<"Error generating answer: ", CompletionError>>,
                                sources |-> <<>>,
                                confidence |-> "error",
                                error |-> CompletionError],
                     calls |-> calls \cup {Completion},
                     entry |-> <<>>]
            ELSE [raised |-> "",
                  value |-> [answer |-> CompletionText,
                             sources |-> got.value.sources,
                             confidence |-> confidence_of(got.value.sources),
                             context_used |-> Len(got.value.context)],
                  calls |-> calls \cup {Completion},
                  entry |-> <<[question |-> question, answer |-> CompletionText,
                               sources |-> got.value.sources, timestamp |-> "now"]>>]

Ask_Prepend ==
    /\ Idle
    /\ Len(conversation_history) < MaxHistory
    /\ \E question \in Questions : \E k \in NumSources : \E embedded, completed \in BOOLEAN :
        LET out == ask(documents_loaded, index, chunks, question, k, embedded, completed)
        IN /\ ret' = Call("ask", <<question, k, embedded, completed>>,
                          out.raised, out.value, out.calls)
           /\ conversation_history' = out.entry \o conversation_history
           /\ queries_processed' = queries_processed + Len(out.entry)
           /\ UNCHANGED <<storeVars, processorVars, advisorVars, documents_loaded, total_chunks>>

\* one call of ask: lines 228-235 append the entry and count the query
Ask ==
    /\ Idle
    /\ Len(conversation_history) < MaxHistory
    /\ \E question \in Questions : \E k \in NumSources : \E embedded, completed \in BOOLEAN :
        LET out == ask(documents_loaded, index, chunks, question, k, embedded, completed)
        IN /\ ret' = Call("ask", <<question, k, embedded, completed>>,
                          out.raised, out.value, out.calls)
           /\ conversation_history' = conversation_history \o out.entry
           /\ queries_processed' = queries_processed + Len(out.entry)
           /\ UNCHANGED <<storeVars, processorVars, advisorVars, documents_loaded, total_chunks>>

\* str.lower on the letters the messages and inputs are written in
Lower(c) ==
    CASE c = "W" -> "w"
      [] c = "H" -> "h"
      [] c = "S" -> "s"
      [] c = "M" -> "m"
      [] c = "D" -> "d"
      [] c = "T" -> "t"
      [] c = "I" -> "i"
      [] OTHER -> c

lower(message) == [i \in 1..Len(message) |-> Lower(message[i])]

\* indicator in text: text has a run of characters equal to indicator
Contains(indicator, text) ==
    \E i \in 1..(Len(text) - Len(indicator) + 1) :
        SubSeq(text, i, i + Len(indicator) - 1) = indicator

\* line 294
question_indicators ==
    {<<"?">>, <<"w", "h", "a", "t">>, <<"h", "o", "w">>, <<"w", "h", "y">>,
     <<"w", "h", "e", "n">>, <<"w", "h", "e", "r", "e">>, <<"w", "h", "o">>,
     <<"e", "x", "p", "l", "a", "i", "n">>, <<"t", "e", "l", "l", " ", "m", "e">>}

\* line 295
is_question(message) ==
    \E indicator \in question_indicators : Contains(indicator, lower(message))

RoutesToAsk_AnyQuestion(message, loaded) == is_question(message)

\* the test of line 297
RoutesToAsk(message, loaded) == is_question(message) /\ loaded # <<>>

\* DocumentQAAgent.get_status (lines 357-375) without the session duration
get_status ==
    [documents |-> Len(documents_loaded),
     total_chunks |-> total_chunks,
     queries_processed |-> queries_processed,
     loaded |-> documents_loaded]

\* DocumentQAAgent._handle_general_message (lines 331-347)
handle_general_message(message) ==
    LET message_lower == lower(message)
    IN IF \E greeting \in {<<"h", "e", "l", "l", "o">>, <<"h", "i">>, <<"h", "e", "y">>} :
             Contains(greeting, message_lower)
          THEN [kind |-> "greeting", status |-> <<>>]
       ELSE IF \/ Contains(<<"s", "t", "a", "t", "u", "s">>, message_lower)
               \/ Contains(<<"i", "n", "f", "o">>, message_lower)
          THEN [kind |-> "status", status |-> get_status]
       ELSE IF Contains(<<"h", "e", "l", "p">>, message_lower)
          THEN [kind |-> "help", status |-> <<>>]
       ELSE [kind |-> "default", status |-> <<>>]

RECURSIVE SourceKeys(_, _)
\* lines 306-312: one line per source and page, the first time it is met
SourceKeys(sources, seen) ==
    IF sources = <<>> THEN <<>>
    ELSE LET source_key == <<Head(sources).source, Head(sources).page>>
         IN IF source_key \in seen THEN SourceKeys(Tail(sources), seen)
            ELSE <<source_key>> \o SourceKeys(Tail(sources), seen \cup {source_key})

\* the messages sent to chat: "Why", "a?", "show", "hi", "Status", "ok"
Messages ==
    {<<"W", "h", "y">>, <<"a", "?">>, <<"s", "h", "o", "w">>, <<"h", "i">>,
     <<"S", "t", "a", "t", "u", "s">>, <<"o", "k">>}

\* DocumentQAAgent.chat (lines 293-319): a question about loaded documents goes to
\* ask with the default num_sources, and the answer gets the list of its sources
\* unless it is an error result; every other message is answered by
\* _handle_general_message
Chat ==
    /\ Idle
    /\ Len(conversation_history) < MaxHistory
    /\ \E message \in Messages :
        IF RoutesToAsk(message, documents_loaded)
           THEN \E embedded, completed \in BOOLEAN :
                LET out == ask(documents_loaded, index, chunks, message, 5, embedded, completed)
                    result == out.value
                    cited == IF out.raised = "" /\ result.sources # <<>>
                                    /\ "error" \notin DOMAIN result
                                THEN SourceKeys(result.sources, {})
                                ELSE <<>>
                IN /\ ret' = Call("chat", <<message, 5, embedded, completed>>, out.raised,
                                  IF out.raised = ""
                                     THEN [kind |-> "answer", answer |-> result.answer,
                                           cited |-> cited]
                                     ELSE <<>>,
                                  out.calls \cup {"ask"})
                   /\ conversation_history' = conversation_history \o out.entry
                   /\ queries_processed' = queries_processed + Len(out.entry)
           ELSE /\ ret' = Call("chat", <<message>>, "", handle_general_message(message), {})
                /\ UNCHANGED <<conversation_history, queries_processed>>
    /\ UNCHANGED <<storeVars, processorVars, advisorVars, documents_loaded, total_chunks>>

\* ClearHistory with the counter of queries left as it is
ClearHistory_KeepCount ==
    /\ Idle
    /\ conversation_history' = <<>>
    /\ ret' = Call("clear_history", <<>>, "", Len(conversation_history), {})
    /\ UNCHANGED <<storeVars, processorVars, advisorVars, documents_loaded, total_chunks,
                   queries_processed>>

\* DocumentQAAgent.clear_history (lines 416-419)
ClearHistory ==
    /\ Idle
    /\ conversation_history' = <<>>
    /\ queries_processed' = 0
    /\ ret' = Call("clear_history", <<>>, "", Len(conversation_history), {})
    /\ UNCHANGED <<storeVars, processorVars, advisorVars, documents_loaded, total_chunks>>

\* DocumentQAAgent.save_vector_store (lines 436-440)
SaveVectorStore ==
    /\ Idle
    /\ disk' = [faiss |-> File(index),
                pkl |-> File(chunks),
                json |-> File([embedding_model |-> embedding_model,
                               dimension |-> dimension,
                               num_chunks |-> Len(chunks),
                               num_embeddings |-> Len(embeddings)])]
    /\ ret' = Call("save_vector_store", <<>>, "", "saved", {})
    /\ UNCHANGED <<index, chunks, embeddings, processorVars, advisorVars, sessionVars>>

\* DocumentQAAgent.load_vector_store (lines 457-466): an exception of load becomes
\* the returned message; total_chunks is set after a load that succeeded
LoadVectorStore ==
    /\ Idle
    /\ IF ~disk.faiss.exists
          THEN /\ UNCHANGED <<index, chunks, total_chunks>>
               /\ ret' = Call("load_vector_store", <<>>, "", "error", {})
       ELSE IF ~disk.pkl.exists
          THEN /\ index' = disk.faiss.data
               /\ UNCHANGED <<chunks, total_chunks>>
               /\ ret' = Call("load_vector_store", <<>>, "", "error", {})
       ELSE IF ~disk.json.exists
          THEN /\ index' = disk.faiss.data
               /\ chunks' = disk.pkl.data
               /\ UNCHANGED total_chunks
               /\ ret' = Call("load_vector_store", <<>>, "", "error", {})
       ELSE /\ index' = disk.faiss.data
            /\ chunks' = disk.pkl.data
            /\ total_chunks' = Len(disk.pkl.data)
            /\ ret' = Call("load_vector_store", <<>>, "", "loaded", {})
    /\ UNCHANGED <<embeddings, disk, processorVars, advisorVars, documents_loaded, queries_processed,
                   conversation_history>>

(***************************************************************************)
(* HelloAdvisor and its MemoryManager (src/day1)                           *)
(***************************************************************************)
MaxInteractions == 3    \* most process_input calls of the exporting agent
MaxFurtherInputs == 1   \* most process_input calls of the importing agent
max_history_size == 2   \* MemoryManager.max_history_size, scaled down from 50

\* str.capitalize; Upper is str.upper on the first letters of the names the
\* inputs tell
capitalize(word) ==
    LET Upper(c) == CASE c = "d" -> "D"
                      [] c = "b" -> "B"
                      [] OTHER -> c
    IN [i \in 1..Len(word) |-> IF i = 1 THEN Upper(word[i]) ELSE Lower(word[i])]

\* \w of the regular expressions
IsWordChar(c) ==
    c \in {"a", "b", "c", "d", "e", "f", "g", "h", "i", "j", "k", "l", "m", "n", "o", "p", "q",
           "r", "s", "t", "u", "v", "w", "x", "y", "z", "_", "0", "1"}

StartsWith(text, prefix) == Len(text) >= Len(prefix) /\ SubSeq(text, 1, Len(prefix)) = prefix

\* the positions at which pattern occurs in text
Occurs(pattern, text) ==
    {i \in 1..(Len(text) - Len(pattern) + 1) : SubSeq(text, i, i + Len(pattern) - 1) = pattern}

Min(S) == CHOOSE x \in S : \A y \in S : x <= y

\* the longest run of positions of text from position i on that are all in fit
RunFrom(text, i, fit) ==
    LET stops == {j \in i..Len(text) : j \notin fit}
    IN SubSeq(text, i, IF stops = {} THEN Len(text) ELSE Min(stops) - 1)

\* the positions of text that \w and [^,.!?] match
WordAt(text) == {j \in 1..Len(text) : IsWordChar(text[j])}
PhraseAt(text) == {j \in 1..Len(text) : text[j] \notin {",", ".", "!", "?"}}


\* what re.search gives: no match, or the captured group of the match
NoMatch == [matched |-> FALSE, group |-> <<>>]
Match(group) == [matched |-> TRUE, group |-> group]

\* re.search(prefix + "([^,.!?]+)", text)
SearchPhrase(prefix, text) ==
    LET starts == {i \in Occurs(prefix, text) :
                      RunFrom(text, i + Len(prefix), PhraseAt(text)) # <<>>}
    IN IF starts = {} THEN NoMatch
       ELSE Match(RunFrom(text, Min(starts) + Len(prefix), PhraseAt(text)))

RECURSIVE FirstPhrase(_, _)
\* the loops over a list of patterns: the group of the first pattern that matches
FirstPhrase(prefixes, text) ==
    IF prefixes = <<>> THEN NoMatch
    ELSE IF SearchPhrase(Head(prefixes), text).matched
       THEN SearchPhrase(Head(prefixes), text)
    ELSE FirstPhrase(Tail(prefixes), text)

\* re.search(r"(?:my name is|call me)\s+(\w+)", text): the captured name
SearchName(text) ==
    LET my_name_is == <<"m", "y", " ", "n", "a", "m", "e", " ", "i", "s">>
        call_me == <<"c", "a", "l", "l", " ", "m", "e">>
        AfterSpaces(i) == i + Len(RunFrom(text, i, {j \in 1..Len(text) : IsSpace(text[j])}))
        After(i) == IF i \in Occurs(my_name_is, text)
                       THEN i + Len(my_name_is) ELSE i + Len(call_me)
        starts == {i \in Occurs(my_name_is, text) \cup Occurs(call_me, text) :
                      LET after == After(i)
                      IN /\ AfterSpaces(after) > after
                         /\ RunFrom(text, AfterSpaces(after), WordAt(text)) # <<>>}
    IN IF starts = {} THEN NoMatch
       ELSE Match(RunFrom(text, AfterSpaces(After(Min(starts))), WordAt(text)))

\* re.search(r"my favorite (\w+) is ([^,.!?]+)", text): the two groups
SearchFavorite(text) ==
    LET prefix == <<"m", "y", " ", "f", "a", "v", "o", "r", "i", "t", "e", " ">>
        CategoryAt(i) == RunFrom(text, i + Len(prefix), WordAt(text))
        RestAt(i) == i + Len(prefix) + Len(CategoryAt(i))
        starts == {i \in Occurs(prefix, text) :
                      /\ CategoryAt(i) # <<>>
                      /\ StartsWith(SubSeq(text, RestAt(i), Len(text)), <<" ", "i", "s", " ">>)
                      /\ RunFrom(text, RestAt(i) + 4, PhraseAt(text)) # <<>>}
    IN IF starts = {} THEN [matched |-> FALSE, category |-> <<>>, favorite |-> <<>>]
       ELSE [matched |-> TRUE,
             category |-> CategoryAt(Min(starts)),
             favorite |-> RunFrom(text, RestAt(Min(starts)) + 4, PhraseAt(text))]

\* dict.get and dict[key] = value on a dict with string keys
Get(dict, key, default) == IF key \in DOMAIN dict THEN dict[key] ELSE default
Put(dict, key, value) ==
    [k \in DOMAIN dict \cup {key} |-> IF k = key THEN value ELSE dict[k]]

EmptyDict == [k \in {} |-> <<>>]

\* MemoryManager.__init__ (lines 19-33); the clock reads "t0" at construction
NewMemory ==
    [conversation_history |-> <<>>,
     user_preferences |-> EmptyDict,
     context |-> [session_start |-> "t0", interaction_count |-> 0, topics_discussed |-> {}]]

\* MemoryManager.add_topic (lines 88-98)
add_topic(m, topic) ==
    [m EXCEPT !.context.topics_discussed = @ \cup {topic}]

\* MemoryManager.update_preference (lines 62-73)
update_preference(m, key, value) ==
    [m EXCEPT !.user_preferences = Put(@, key, value)]

\* MemoryManager.add_interaction (lines 35-60): the oldest turn is dropped when the
\* history is longer than max_history_size
add_interaction(m, user_input, agent_response, metadata) ==
    LET grown == Append(m.conversation_history,
                        [timestamp |-> "now", user_input |-> user_input,
                         agent_response |-> agent_response, metadata |-> metadata])
    IN [m EXCEPT !.conversation_history =
                    IF Len(grown) > max_history_size THEN Tail(grown) ELSE grown,
                 !.context.interaction_count = @ + 1]

\* HelloAdvisor._analyze_intent (lines 90-156)
AnyIn(patterns, text) == \E pattern \in patterns : Contains(pattern, text)

analyze_intent(user_input_lower) ==
    LET preference_patterns ==
            {<<"m", "y", " ", "n", "a", "m", "e", " ", "i", "s">>,
             <<"i", " ", "l", "o", "v", "e">>, <<"i", " ", "l", "i", "k", "e">>,
             <<"i", " ", "e", "n", "j", "o", "y">>,
             <<"m", "y", " ", "f", "a", "v", "o", "r", "i", "t", "e">>,
             <<"i", " ", "p", "r", "e", "f", "e", "r">>,
             <<"i", "'", "m", " ", "i", "n", "t", "e", "r", "e", "s", "t", "e", "d", " ", "i", "n">>,
             <<"i", " ", "h", "a", "t", "e">>,
             <<"i", " ", "d", "i", "s", "l", "i", "k", "e">>,
             <<"i", " ", "d", "o", "n", "'", "t", " ", "l", "i", "k", "e">>,
             <<"c", "a", "l", "l", " ", "m", "e">>,
             <<"i", " ", "a", "m", " ", "i", "n", "t", "e", "r", "e", "s", "t", "e", "d">>,
             <<"i", " ", "r", "e", "a", "l", "l", "y", " ", "l", "o", "v", "e">>,
             <<"i", " ", "r", "e", "a", "l", "l", "y", " ", "l", "i", "k", "e">>,
             <<"i", " ", "a", "b", "s", "o", "l", "u", "t", "e", "l", "y", " ", "l", "o", "v", "e">>}
        recall_keywords ==
            {<<"d", "o", " ", "y", "o", "u", " ", "r", "e", "m", "e", "m", "b", "e", "r">>,
             <<"w", "h", "a", "t", " ", "d", "o", " ", "y", "o", "u", " ", "k", "n", "o", "w", " ", "a", "b", "o", "u", "t", " ", "m", "e">>}
        greetings ==
            {<<"h", "e", "l", "l", "o">>, <<"h", "i">>, <<"h", "e", "y">>,
             <<"g", "r", "e", "e", "t", "i", "n", "g", "s">>,
             <<"g", "o", "o", "d", " ", "m", "o", "r", "n", "i", "n", "g">>,
             <<"g", "o", "o", "d", " ", "a", "f", "t", "e", "r", "n", "o", "o", "n">>,
             <<"g", "o", "o", "d", " ", "e", "v", "e", "n", "i", "n", "g">>}
        farewells ==
            {<<"b", "y", "e">>, <<"g", "o", "o", "d", "b", "y", "e">>,
             <<"s", "e", "e", " ", "y", "o", "u">>,
             <<"f", "a", "r", "e", "w", "e", "l", "l">>, <<"e", "x", "i", "t">>,
             <<"q", "u", "i", "t">>}
        joke_keywords ==
            {<<"j", "o", "k", "e">>, <<"f", "u", "n", "n", "y">>,
             <<"l", "a", "u", "g", "h">>, <<"h", "u", "m", "o", "r">>,
             <<"s", "o", "m", "e", "t", "h", "i", "n", "g", " ", "f", "u", "n", "n", "y">>}
        identity_keywords ==
            {<<"w", "h", "o", " ", "a", "r", "e", " ", "y", "o", "u">>,
             <<"w", "h", "a", "t", " ", "a", "r", "e", " ", "y", "o", "u">>,
             <<"y", "o", "u", "r", " ", "n", "a", "m", "e">>,
             <<"w", "h", "o", " ", "i", "s">>,
             <<"w", "h", "a", "t", " ", "i", "s", " ", "y", "o", "u", "r">>}
        capability_keywords ==
            {<<"w", "h", "a", "t", " ", "c", "a", "n", " ", "y", "o", "u">>,
             <<"h", "o", "w", " ", "c", "a", "n", " ", "y", "o", "u", " ", "h", "e", "l", "p">>,
             <<"w", "h", "a", "t", " ", "d", "o", " ", "y", "o", "u", " ", "d", "o">>,
             <<"y", "o", "u", "r", " ", "c", "a", "p", "a", "b", "i", "l", "i", "t", "i", "e", "s">>,
             <<"c", "a", "n", " ", "y", "o", "u">>}
        help_keywords ==
            {<<"h", "e", "l", "p">>,
             <<"w", "h", "a", "t", " ", "c", "a", "n", " ", "i", " ", "a", "s", "k">>}
        summary_keywords ==
            {<<"s", "u", "m", "m", "a", "r", "y">>,
             <<"s", "e", "s", "s", "i", "o", "n", " ", "i", "n", "f", "o">>}
    IN
    IF AnyIn(preference_patterns, user_input_lower) THEN "remember"
    ELSE IF StartsWith(user_input_lower, <<"r", "e", "m", "e", "m", "b", "e", "r">>) THEN "remember"
    ELSE IF AnyIn(recall_keywords, user_input_lower) THEN "recall"
    ELSE IF AnyIn(greetings, user_input_lower) THEN "greeting"
    ELSE IF AnyIn(farewells, user_input_lower) THEN "farewell"
    ELSE IF AnyIn(joke_keywords, user_input_lower) THEN "joke_request"
    ELSE IF AnyIn(identity_keywords, user_input_lower) THEN "identity"
    ELSE IF AnyIn(capability_keywords, user_input_lower) THEN "capabilities"
    ELSE IF AnyIn(help_keywords, user_input_lower) THEN "help"
    ELSE IF AnyIn(summary_keywords, user_input_lower) THEN "memory_summary"
    ELSE "general"

\* one list-valued preference of _handle_remember: the phrase is appended to the
\* list stored under key unless it is in it, found being what the search gave (st: the memory and the stored items)
RememberPhrase(st, key, found, label) ==
    IF ~found.matched THEN st
    ELSE LET thing == Strip(found.group)
             held == Get(st.m.user_preferences, key, <<>>)
         IN IF thing \in Range(held) THEN st
            ELSE [m |-> update_preference(st.m, key, Append(held, thing)),
                  stored_items |-> Append(st.stored_items, <<label, thing>>)]

\* HelloAdvisor._handle_remember (lines 235-379): the memory it leaves and its
\* response
handle_remember(m, user_input) ==
    LET \* the patterns, up to their captured group
        love_patterns ==
            <<<<"i", " ", "l", "o", "v", "e", " ">>,
             <<"i", " ", "r", "e", "a", "l", "l", "y", " ", "l", "o", "v", "e", " ">>,
             <<"i", " ", "a", "b", "s", "o", "l", "u", "t", "e", "l", "y", " ", "l", "o", "v", "e", " ">>>>
        like_patterns ==
            <<<<"i", " ", "l", "i", "k", "e", " ">>,
             <<"i", " ", "r", "e", "a", "l", "l", "y", " ", "l", "i", "k", "e", " ">>,
             <<"i", " ", "e", "n", "j", "o", "y", " ">>>>
        i_prefer == <<"i", " ", "p", "r", "e", "f", "e", "r", " ">>
        dislike_patterns ==
            <<<<"i", " ", "h", "a", "t", "e", " ">>,
             <<"i", " ", "d", "i", "s", "l", "i", "k", "e", " ">>,
             <<"i", " ", "d", "o", "n", "'", "t", " ", "l", "i", "k", "e", " ">>,
             <<"i", " ", "r", "e", "a", "l", "l", "y", " ", "h", "a", "t", "e", " ">>,
             <<"i", " ", "r", "e", "a", "l", "l", "y", " ", "d", "i", "s", "l", "i", "k", "e", " ">>,
             <<"i", " ", "r", "e", "a", "l", "l", "y", " ", "d", "o", "n", "'", "t", " ", "l", "i", "k", "e", " ">>>>
        interest_patterns ==
            <<
             <<"i", "'", "m", " ", "i", "n", "t", "e", "r", "e", "s", "t", "e", "d", " ", "i", "n", " ">>,
             <<"i", " ", "a", "m", " ", "i", "n", "t", "e", "r", "e", "s", "t", "e", "d", " ", "i", "n", " ">>>>
        user_input_lower == lower(user_input)
        name == SearchName(user_input_lower)
        s1 == IF ~name.matched THEN [m |-> m, stored_items |-> <<>>]
              ELSE [m |-> add_topic(update_preference(m, "user_name", capitalize(name.group)),
                                    "personal_info"),
                    stored_items |-> << <<"your name", capitalize(name.group)>> >>]
        s2 == RememberPhrase(s1, "loves",
                             FirstPhrase(love_patterns, user_input_lower), "you love")
        s3 == RememberPhrase(s2, "likes",
                             FirstPhrase(like_patterns, user_input_lower), "you like")
        fav == SearchFavorite(user_input_lower)
        s4 == IF ~fav.matched THEN s3
              ELSE [m |-> update_preference(s3.m, "favorites",
                                            Put(Get(s3.m.user_preferences, "favorites", EmptyDict),
                                                Strip(fav.category), Strip(fav.favorite))),
                    stored_items |-> Append(s3.stored_items,
                                            <<"your favorite", Strip(fav.category),
                                              Strip(fav.favorite)>>)]
        s5 == RememberPhrase(s4, "preferences",
                             SearchPhrase(i_prefer, user_input_lower), "you prefer")
        s6 == RememberPhrase(s5, "dislikes",
                             FirstPhrase(dislike_patterns, user_input_lower), "you dislike")
        s7 == RememberPhrase(s6, "interests",
                             FirstPhrase(interest_patterns, user_input_lower), "you're interested in")
    IN [m |-> s7.m, response |-> [kind |-> "remember", stored_items |-> s7.stored_items]]

\* HelloAdvisor._tell_joke (lines 215-233); choice is what random.choice picks
tell_joke(user_input, choice) ==
    LET science_words ==
            {<<"s", "c", "i", "e", "n", "c", "e">>,
             <<"s", "c", "i", "e", "n", "t", "i", "s", "t">>}
        programming_words ==
            {<<"p", "r", "o", "g", "r", "a", "m", "m", "i", "n", "g">>,
             <<"c", "o", "d", "i", "n", "g">>,
             <<"d", "e", "v", "e", "l", "o", "p", "e", "r">>}
        category == IF AnyIn(science_words, user_input) THEN "science"
                    ELSE IF AnyIn(programming_words, user_input) THEN "programming"
                    ELSE "general"
    IN [kind |-> "joke", category |-> category, joke |-> choice]

\* HelloAdvisor._handle_general_conversation (lines 509-534)
handle_general_conversation(user_input, choice) ==
    LET positive_emotions ==
            {<<"t", "h", "a", "n", "k", "s">>,
             <<"t", "h", "a", "n", "k", " ", "y", "o", "u">>,
             <<"a", "w", "e", "s", "o", "m", "e">>, <<"g", "r", "e", "a", "t">>,
             <<"l", "o", "v", "e">>, <<"g", "o", "o", "d">>}
    IN IF Contains(<<"?">>, user_input) THEN [kind |-> "question"]
       ELSE IF AnyIn(positive_emotions, user_input) THEN [kind |-> "welcome"]
       ELSE [kind |-> "default", template |-> choice]

\* HelloAdvisor._generate_response (lines 158-213): the memory it leaves and its
\* response; a response is the template chosen and the values put into it
generate_response(m, intent, original_input, normalized_input, choice) ==
    LET user_name == Get(m.user_preferences, "user_name", <<>>)
    IN CASE intent = "greeting" ->
                [m |-> add_topic(m, "greeting"),
                 response |-> [kind |-> "greeting", template |-> choice, name |-> user_name]]
         [] intent = "farewell" ->
                [m |-> m,
                 response |-> [kind |-> "farewell", name |-> user_name,
                               interaction_count |-> m.context.interaction_count]]
         [] intent = "joke_request" ->
                [m |-> add_topic(m, "jokes"), response |-> tell_joke(normalized_input, choice)]
         [] intent = "identity" ->
                [m |-> add_topic(m, "identity"), response |-> [kind |-> "agent"]]
         [] intent = "capabilities" ->
                [m |-> add_topic(m, "capabilities"), response |-> [kind |-> "capabilities"]]
         [] intent = "remember" -> handle_remember(m, original_input)
         [] intent = "recall" ->
                [m |-> m,
                 response |-> [kind |-> "recall", preferences |-> m.user_preferences,
                               topics |-> m.context.topics_discussed,
                               interaction_count |-> m.context.interaction_count]]
         [] intent = "help" -> [m |-> m, response |-> [kind |-> "help"]]
         [] intent = "memory_summary" ->
                [m |-> m,
                 response |-> [kind |-> "summary",
                               interaction_count |-> m.context.interaction_count,
                               topics |-> m.context.topics_discussed,
                               preferences_set |-> Cardinality(DOMAIN m.user_preferences)]]
         [] OTHER ->
                [m |-> m, response |-> handle_general_conversation(normalized_input, choice)]

\* HelloAdvisor.process_input (lines 56-88)
process_input(m, user_input, choice) ==
    LET user_input_lower == Strip(lower(user_input))
        intent == analyze_intent(user_input_lower)
        out == generate_response(m, intent, user_input, user_input_lower, choice)
    IN [m |-> add_interaction(out.m, user_input, out.response, [intent |-> intent]),
        response |-> out.response]

\* the orders list(a_set) can give
Orderings(S) == {l \in [1..Cardinality(S) -> S] : Range(l) = S}

NoJson == [exists |-> FALSE, data |-> <<>>]

export_memory_NoTopics(m, topics) ==
    [exists |-> TRUE,
     data |-> [conversation_history |-> m.conversation_history,
               user_preferences |-> m.user_preferences,
               context |-> [session_start |-> m.context.session_start,
                            interaction_count |-> m.context.interaction_count,
                            topics_discussed |-> <<>>]]]

\* MemoryManager.export_memory (lines 165-180): the JSON document; the set of topics
\* becomes a list, topics being the order list() gives it.  Strings, integers,
\* lists and dicts with string keys come back from json.loads as json.dumps got them
export_memory(m, topics) ==
    [exists |-> TRUE,
     data |-> [conversation_history |-> m.conversation_history,
               user_preferences |-> m.user_preferences,
               context |-> [session_start |-> m.context.session_start,
                            interaction_count |-> m.context.interaction_count,
                            topics_discussed |-> topics]]]

\* MemoryManager.import_memory (lines 182-199) on the document of a memory export
import_memory(json) ==
    [conversation_history |-> json.data.conversation_history,
     user_preferences |-> json.data.user_preferences,
     context |-> [json.data.context EXCEPT !.topics_discussed = Range(@)]]

\* the inputs typed: "Hello", "My name is David", "Tell me a joke", "I love tea"
Inputs ==
    {<<"H", "e", "l", "l", "o">>,
     <<"M", "y", " ", "n", "a", "m", "e", " ", "i", "s", " ", "D", "a", "v", "i", "d">>,
     <<"T", "e", "l", "l", " ", "m", "e", " ", "a", " ", "j", "o", "k", "e">>,
     <<"I", " ", "l", "o", "v", "e", " ", "t", "e", "a">>}

InitAdvisor ==
    /\ memory = NewMemory
    /\ exported = NoJson
    /\ advisor = "agent"

\* one process_input call; the agent that exported its memory is left alone, the
\* further inputs go to the new agent
ProcessInput ==
    /\ Idle
    /\ advisor = "agent" =>
        /\ ~exported.exists
        /\ memory.context.interaction_count < MaxInteractions
    /\ advisor = "new_agent" =>
        memory.context.interaction_count
            < exported.data.context.interaction_count + MaxFurtherInputs
    /\ \E user_input \in Inputs : \E choice \in 1..3 :
        LET out == process_input(memory, user_input, choice)
        IN /\ memory' = out.m
           /\ ret' = Call("process_input", <<user_input>>, "", out.response, {})
    /\ UNCHANGED <<exported, advisor, storeVars, processorVars, sessionVars>>

\* HelloAdvisor.get_memory_export (lines 536-543)
GetMemoryExport ==
    /\ Idle
    /\ advisor = "agent"
    /\ ~exported.exists
    /\ \E topics \in Orderings(memory.context.topics_discussed) :
        /\ exported' = export_memory(memory, topics)
        /\ ret' = Call("get_memory_export", <<>>, "", export_memory(memory, topics), {})
    /\ UNCHANGED <<memory, advisor, storeVars, processorVars, sessionVars>>

\* new_agent = HelloAdvisor(); new_agent.load_memory_import(json) (lines 545-555): the
\* inputs that follow go to new_agent
LoadMemoryImport ==
    /\ Idle
    /\ advisor = "agent"
    /\ exported.exists
    /\ memory' = import_memory(exported)
    /\ advisor' = "new_agent"
    /\ ret' = Call("load_memory_import", <<>>, "", <<>>, {})
    /\ UNCHANGED <<exported, storeVars, processorVars, sessionVars>>

(***************************************************************************)
(* SpecChunk: a processor of any configuration chunks any text.            *)
(***************************************************************************)
Texts == SeqsUpTo(Alphabet \cup Range(Markers), MaxTextLen)

InitChunk ==
    /\ InitStore
    /\ InitDisk
    /\ InitSession
    /\ chunk_size \in 1..MaxChunkSize
    /\ chunk_overlap \in 0..1
    /\ min_chunk_size \in 0..MaxChunkSize
    /\ InitAdvisor
    /\ ret = NoCall

\* DocumentProcessor.chunk_text (lines 138-218)
ChunkText ==
    /\ Idle
    /\ \E text \in Texts :
        /\ ret' = [op |-> "chunk_text", args |-> <<text, "doc.pdf">>, raised |-> "",
                   value |-> chunk_text_of(text, "doc.pdf", chunk_size, chunk_overlap, min_chunk_size),
                   calls |-> {}]
        /\ UNCHANGED <<storeVars, processorVars, advisorVars, sessionVars>>

NextChunk ==
    \/ ChunkText
    \/ Return

SpecChunk == InitChunk /\ [][NextChunk]_vars

\* C7: every chunk chunk_text emits has content length >= min_chunk_size, and its
\* recorded char_count is that length
C7_ChunksReachMinSize ==
    ret.op = "chunk_text" =>
        \A i \in 1..Len(ret.value) :
            /\ Len(ret.value[i].content) >= min_chunk_size
            /\ ret.value[i].metadata.char_count = Len(ret.value[i].content)

\* ". a." with chunk_size 2 and min_chunk_size 2: the buffer "." is closed by the
\* overflow of "a." and dropped, "a." is emitted
C7_Witness ==
    /\ ret.op = "chunk_text"
    /\ ret.args[1] = <<".", " ", "a", ".">>
    /\ chunk_size = 2
    /\ min_chunk_size = 2
    /\ Len(ret.value) = 1
    /\ ret.value[1].content = <<"a", ".">>

\* the content is a run of consecutive sentences of the page text, joined by spaces
BuiltFrom(content, pageText) ==
    LET sentences == split_sentences(clean_text(pageText))
    IN \E a \in 1..Len(sentences) : \E b \in a..Len(sentences) :
           content = Join(SubSeq(sentences, a, b), <<" ">>)

\* C8: the chunk_index values of one chunk_text call are 0, 1, 2, ... in emission
\* order, across pages and with no index used up by a dropped buffer, and the
\* page of a chunk is the number of the marker whose text it was built from
\* (1 when the text has no marker)
C8_IndexAndPage ==
    ret.op = "chunk_text" =>
        LET pages == page_contents(ret.args[1])
        IN \A i \in 1..Len(ret.value) :
              /\ ret.value[i].metadata.chunk_index = i - 1
              /\ \E j \in 1..Len(pages) :
                    /\ pages[j].page_num = ret.value[i].metadata.page
                    /\ BuiltFrom(ret.value[i].content, pages[j].page_text)
              /\ (\A n \in 1..Len(ret.args[1]) : ~IsMarker(ret.args[1][n]))
                    => ret.value[i].metadata.page = 1

\* "[PAGE_1].[PAGE_2]." with min_chunk_size 1: chunk 0 on page 1, chunk 1 on page 2
C8_Witness ==
    /\ ret.op = "chunk_text"
    /\ ret.args[1] = <<"[PAGE_1]", ".", "[PAGE_2]", ".">>
    /\ min_chunk_size = 1
    /\ Len(ret.value) = 2
    /\ ret.value[1].metadata.chunk_index = 0 /\ ret.value[1].metadata.page = 1
    /\ ret.value[2].metadata.chunk_index = 1 /\ ret.value[2].metadata.page = 2

(***************************************************************************)
(* SpecSentences: a processor of any configuration chunks a one-page text  *)
(* of a few short sentences.                                               *)
(***************************************************************************)
MaxSentences == 3       \* most sentences of a text of SpecSentences

Sentences == {<<".">>, <<"a", ".">>, <<"a", " ", "a", ".">>}

SentenceTexts == {Join(l, <<" ">>) : l \in SeqsUpTo(Sentences, MaxSentences)}

\* DocumentProcessor.chunk_text (lines 138-218) of a text of sentences
ChunkSentences ==
    /\ Idle
    /\ \E text \in SentenceTexts :
        /\ ret' = [op |-> "chunk_text", args |-> <<text, "doc.pdf">>, raised |-> "",
                   value |-> chunk_text_of(text, "doc.pdf", chunk_size, chunk_overlap, min_chunk_size),
                   calls |-> {}]
        /\ UNCHANGED <<storeVars, processorVars, advisorVars, sessionVars>>

NextSentences ==
    \/ ChunkSentences
    \/ Return

SpecSentences == InitChunk /\ [][NextSentences]_vars

(***************************************************************************)
(* Spec: the life of one VectorStoreManager at a time and of the directory *)
(* it saves to: construction, add_documents, save, load, get_stats.        *)
(***************************************************************************)
Init ==
    /\ InitStore
    /\ InitDisk
    /\ InitSession
    /\ chunk_size = 3
    /\ chunk_overlap = 1
    /\ min_chunk_size = 1
    /\ InitAdvisor
    /\ ret = NoCall

Next ==
    \/ NewStore
    \/ AddDocuments
    \/ Save
    \/ Load
    \/ GetStats
    \/ Return

Spec == Init /\ [][Next]_vars

(***************************************************************************)
(* SpecSearch: retrieval from a store grown by add_documents.  save and    *)
(* load keep the index and the chunk list they are given, so the stores    *)
(* they produce are the stores add_documents produces.                     *)
(***************************************************************************)
NextSearch ==
    \/ AddDocuments
    \/ Search
    \/ GetContextForQuery
    \/ Return

SpecSearch == Init /\ [][NextSearch]_vars

(***************************************************************************)
(* SpecFault: a VectorStoreManager loads from a directory in which any of   *)
(* the three artifacts of a saved store may be missing.                    *)
(***************************************************************************)
\* what save writes for a store of the chunks cs
SavedDirectory(cs) ==
    LET embs == create_embeddings_batch([i \in 1..Len(cs) |-> cs[i].content], BatchSize, {})
    IN [faiss |-> File(embs),
        pkl |-> File(cs),
        json |-> File([embedding_model |-> embedding_model,
                       dimension |-> dimension,
                       num_chunks |-> Len(cs),
                       num_embeddings |-> Len(embs)])]

\* the directories left when some of the files of a saved store are gone
PartialDirectories ==
    {[faiss |-> IF f THEN SavedDirectory(cs).faiss ELSE Absent,
      pkl |-> IF p THEN SavedDirectory(cs).pkl ELSE Absent,
      json |-> IF j THEN SavedDirectory(cs).json ELSE Absent] :
        f \in BOOLEAN, p \in BOOLEAN, j \in BOOLEAN, cs \in {<<cA, cB>>, <<cC>>}}

InitFault ==
    /\ InitStore
    /\ disk \in PartialDirectories
    /\ InitSession
    /\ chunk_size = 3
    /\ chunk_overlap = 1
    /\ min_chunk_size = 1
    /\ InitAdvisor
    /\ ret = NoCall

NextFault ==
    \/ AddDocuments
    \/ Load
    \/ GetStats
    \/ Return

SpecFault == InitFault /\ [][NextFault]_vars

(***************************************************************************)
(* SpecAgent: one DocumentQAAgent session over the PDF files and the       *)
(* directory of saved stores.  The session is followed up to the first     *)
(* answer it records since its history was last empty; SpecDialog follows  *)
(* longer histories.                                                       *)
(***************************************************************************)
\* the directory holds nothing, or the store an earlier session saved after it
\* loaded a.pdf
SavedStores ==
    LET cs == process_document("a.pdf", 3, 1, 1).chunks
        embs == create_embeddings_batch([i \in 1..Len(cs) |-> cs[i].content], BatchSize, {})
    IN {[faiss |-> Absent, pkl |-> Absent, json |-> Absent],
        [faiss |-> File(embs),
         pkl |-> File(cs),
         json |-> File([embedding_model |-> embedding_model,
                        dimension |-> dimension,
                        num_chunks |-> Len(cs),
                        num_embeddings |-> Len(embs)])]}

InitAgentSpec ==
    /\ InitAgent
    /\ disk \in SavedStores
    /\ InitAdvisor
    /\ ret = NoCall

\* a call of ask by a session whose history is empty
AskFirst == conversation_history = <<>> /\ Ask

\* a call of chat by a session whose history is empty
ChatFirst == conversation_history = <<>> /\ Chat

NextAgent ==
    \/ LoadDocument
    \/ LoadMultipleDocuments
    \/ AskFirst
    \/ ChatFirst
    \/ ClearHistory
    \/ SaveVectorStore
    \/ LoadVectorStore
    \/ Return

SpecAgent == InitAgentSpec /\ [][NextAgent]_vars

(***************************************************************************)
(* SpecDialog: a DocumentQAAgent session that loads documents and answers  *)
(* questions and saves nothing; its history grows to MaxHistory entries.   *)
(***************************************************************************)
NextDialog ==
    \/ LoadDocument
    \/ LoadMultipleDocuments
    \/ Ask
    \/ ClearHistory
    \/ Return

SpecDialog == Init /\ [][NextDialog]_vars

(***************************************************************************)
(* SpecConfidence: the confidence estimate of ask as a function of the     *)
(* sources of the context, best first.                                     *)
(***************************************************************************)
MaxSources == 3         \* most sources of one context

\* 3-decimal similarities, in thousandths
SimilarityValues == {1000, 937, 700, 500, 463, 333, 100}

\* the sources get_context_for_query returns are in the order of the search
\* results, nearest first
SourceLists ==
    {l \in SeqsUpTo([source : {"a.pdf"}, page : {1}, similarity : SimilarityValues], MaxSources) :
        /\ l # <<>>
        /\ \A i \in 1..(Len(l) - 1) : l[i].similarity >= l[i + 1].similarity}

\* lines 224-226 of ask on the sources of a context
EstimateConfidence ==
    /\ Idle
    /\ \E sources \in SourceLists :
        ret' = Call("confidence", <<sources>>, "", confidence_of(sources), {})
    /\ UNCHANGED <<storeVars, processorVars, advisorVars, sessionVars>>

NextConfidence ==
    \/ EstimateConfidence
    \/ Return

SpecConfidence == Init /\ [][NextConfidence]_vars

(***************************************************************************)
(* SpecAdvisor: a HelloAdvisor processes inputs, its memory is exported,   *)
(* and a new HelloAdvisor imports the document and processes more inputs.  *)
(***************************************************************************)
NextAdvisor ==
    \/ ProcessInput
    \/ GetMemoryExport
    \/ LoadMemoryImport
    \/ Return

SpecAdvisor == Init /\ [][NextAdvisor]_vars

(***************************************************************************)
(* SpecMemory: one MemoryManager of max_history_size turns under           *)
(* add_interaction, clear and import_memory; the documents imported are    *)
(* exports of MemoryManagers of any max_history_size.                      *)
(***************************************************************************)
\* the turns add_interaction is given
Turns ==
    {[timestamp |-> "now", user_input |-> u, agent_response |-> [kind |-> "help"],
      metadata |-> [intent |-> "help"]] : u \in {<<"a">>, <<"b">>, <<"c">>}}

\* exports of a MemoryManager built with max_history_size + 1: its history holds
\* up to that many turns, its interaction_count is at least their number
ExportedDocuments ==
    {export_memory([conversation_history |-> h,
                    user_preferences |-> EmptyDict,
                    context |-> [session_start |-> "t0",
                                 interaction_count |-> Len(h) + more,
                                 topics_discussed |-> {}]], <<>>) :
        h \in SeqsUpTo(Turns, max_history_size + 1), more \in 0..1}

\* MemoryManager.add_interaction (lines 35-60)
AddInteraction ==
    /\ Idle
    /\ memory.context.interaction_count < MaxInteractions
    /\ \E turn \in Turns :
        /\ memory' = add_interaction(memory, turn.user_input, turn.agent_response, turn.metadata)
        /\ ret' = Call("add_interaction", <<turn.user_input>>, "", <<>>, {})
    /\ UNCHANGED <<exported, advisor, storeVars, processorVars, sessionVars>>

\* MemoryManager.clear (lines 150-163)
ClearMemory ==
    /\ Idle
    /\ memory' = NewMemory
    /\ ret' = Call("clear", <<>>, "", <<>>, {})
    /\ UNCHANGED <<exported, advisor, storeVars, processorVars, sessionVars>>

\* MemoryManager.import_memory (lines 182-199) of a document
ImportMemory ==
    /\ Idle
    /\ \E json \in ExportedDocuments :
        /\ memory' = import_memory(json)
        /\ ret' = Call("import_memory", <<json>>, "", <<>>, {})
    /\ UNCHANGED <<exported, advisor, storeVars, processorVars, sessionVars>>

NextMemory ==
    \/ AddInteraction
    \/ ClearMemory
    \/ ImportMemory
    \/ Return

SpecMemory == Init /\ [][NextMemory]_vars

(***************************************************************************)
(* Claims about the store's life (Spec).                                   *)
(***************************************************************************)
\* the vector a stored position holds for its chunk: the one the service gave for
\* the chunk's content, or the zero-vector of a failed batch
VectorFor(v, chunk) == v = EmbeddingOf(chunk.content) \/ v = ZeroVector

\* C4: in every reachable state of a store the chunk list and the embedding list
\* have the same length (get_stats: total_chunks = total_embeddings) and entry i
\* of one belongs to entry i of the other
C4_ChunksAndEmbeddingsCoIndexed ==
    /\ Len(chunks) = Len(embeddings)
    /\ \A i \in 1..Len(chunks) : i <= Len(embeddings) => VectorFor(embeddings[i], chunks[i])
    /\ (ret.op = "get_stats" => ret.value.total_chunks = ret.value.total_embeddings)

\* C5: add_documents of n >= 1 chunks with any set of failing batches does not
\* raise and appends the n chunks and n vectors in input order, zero-vectors at
\* the positions of the failed batches and the service's vectors elsewhere, to
\* the chunk list, the embedding list and the index alike
C5_AddDocumentsDegrades ==
    [][ (ret'.op = "add_documents" /\ ret'.args[1] # <<>>) =>
          LET cs == ret'.args[1]
              failed == ret'.args[2]
              expected == [p \in 1..Len(cs) |->
                              IF \E b \in failed : (b - 1) * BatchSize < p /\ p <= b * BatchSize
                                 THEN ZeroVector ELSE EmbeddingOf(cs[p].content)]
          IN /\ ret'.raised = ""
             /\ chunks' = chunks \o cs
             /\ embeddings' = embeddings \o expected
             /\ index' = index \o expected
             /\ Len(index') = Len(chunks')
    ]_vars

\* one batch of the list failed and another did not
C5_Witness ==
    /\ ret.op = "add_documents"
    /\ Len(ret.args[1]) = Len(chunks)
    /\ \E p, r \in 1..Len(chunks) :
          /\ index[p] = ZeroVector /\ embeddings[p] = ZeroVector
          /\ index[r] = EmbeddingOf(chunks[r].content) /\ index[r] # ZeroVector
          /\ ((p - 1) \div BatchSize) + 1 \in ret.args[2]
          /\ ((r - 1) \div BatchSize) + 1 \notin ret.args[2]

\* C6: a store that was saved and a store that loaded what was saved answer every
\* search(q, k) alike: the same chunks in the same order with the same
\* similarities.  The saved artifacts stand between the two: after save they
\* answer as the saving store does, after load the loading store answers as they do.
C6_SaveLoadSameSearch ==
    (ret.op \in {"save", "load"} /\ ret.raised = "") =>
        \A q \in Queries : \A k \in 1..MaxK :
            search(index, chunks, q, k, TRUE) = search(disk.faiss.data, disk.pkl.data, q, k, TRUE)

\* a saved store of two or more chunks was loaded into a store that held other chunks
C6_Witness ==
    /\ ret.op = "load"
    /\ ret.raised = ""
    /\ Len(chunks) >= 2
    /\ Len(embeddings) # Len(chunks)
    /\ \E q \in Queries : Len(search(index, chunks, q, 2, TRUE).value) = 2

(***************************************************************************)
(* Claims about loading from a damaged directory (SpecFault).              *)
(***************************************************************************)
\* C19: load raises a not-found error whenever the index file, the chunk file or
\* the metadata file does not exist, and does not report a load in that case.
C19_LoadNeedsAllArtifacts ==
    (ret.op = "load" /\ (~disk.faiss.exists \/ ~disk.pkl.exists \/ ~disk.json.exists)) =>
        /\ ret.raised = "FileNotFoundError"
        /\ ret.value = <<>>

\* load has raised for a directory that has the index and the chunk file of a
\* saved store and not its metadata file
C19_Witness ==
    /\ ret.op = "load"
    /\ disk.faiss.exists
    /\ disk.pkl.exists
    /\ ~disk.json.exists
    /\ ret.raised = "FileNotFoundError"

(***************************************************************************)
(* Claims about retrieval (SpecSearch).                                    *)
(***************************************************************************)
\* C1: the context get_context_for_query returns, delimiters counted, is never
\* longer than max_context_length
C1_ContextWithinLimit ==
    (ret.op = "get_context_for_query" /\ ret.raised = "") =>
        Len(ret.value.context) <= ret.args[3]

Occurrences(x, seq) == Cardinality({i \in 1..Len(seq) : seq[i] = x})

\* C2: search(query, k) with k > n on a store of n >= 1 chunks returns exactly n
\* results, one for each stored chunk, and none for a position the index left
\* unfilled
C2_SearchBeyondSizeReturnsAll ==
    (ret.op = "search" /\ ret.raised = "" /\ chunks # <<>> /\ ret.args[2] > Len(chunks)) =>
        LET found == [i \in 1..Len(ret.value) |-> ret.value[i].chunk]
        IN /\ Len(ret.value) = Len(chunks)
           /\ \A c \in Range(chunks) : Occurrences(c, found) = Occurrences(c, chunks)

\* the injective lists of k positions of a store of n chunks
PositionLists(n, k) == {p \in [1..k -> 1..n] : \A i, j \in 1..k : p[i] = p[j] => i = j}

\* C3: search(query, k) with 1 <= k <= n on a store of n chunks returns k pairs for
\* k distinct stored positions, the k nearest by L2 distance, nearest first
\* (similarity not increasing), each with the chunk stored at its position
C3_SearchReturnsKNearest ==
    (ret.op = "search" /\ ret.raised = "" /\ chunks # <<>> /\ ret.args[2] <= Len(chunks)) =>
        LET q == EmbeddingOf(ret.args[1])
            k == ret.args[2]
            dist(p) == SquaredL2(index[p], q)
        IN /\ Len(ret.value) = k
           /\ \A i \in 1..(k - 1) : ret.value[i].similarity >= ret.value[i + 1].similarity
           /\ \E p \in PositionLists(Len(chunks), k) :
                 /\ \A i \in 1..k : /\ ret.value[i].chunk = chunks[p[i]]
                                    /\ ret.value[i].similarity = SimScale \div (1 + dist(p[i]))
                 /\ \A i \in 1..(k - 1) : dist(p[i]) <= dist(p[i + 1])
                 /\ \A r \in 1..Len(chunks) :
                       (\A i \in 1..k : p[i] # r) => \A i \in 1..k : dist(p[i]) <= dist(r)

\* the two nearest of three chunks, the nearest one not the first stored
C3_Witness ==
    /\ ret.op = "search"
    /\ ret.raised = ""
    /\ Len(chunks) = 3
    /\ ret.args[2] = 2
    /\ Len(ret.value) = 2
    /\ ret.value[1].chunk # chunks[1]
    /\ ret.value[1].similarity > ret.value[2].similarity

\* C9: on a store without chunks search returns the empty list and
\* get_context_for_query returns ("", []), neither calling the embedding service
C9_EmptyStoreNoEmbedding ==
    chunks = <<>> =>
        /\ ret.op = "search" => (ret.value = <<>> /\ ret.raised = "" /\ ret.calls = {})
        /\ ret.op = "get_context_for_query" =>
              /\ ret.raised = ""
              /\ ret.calls = {}
              /\ ret.value.context = <<>>
              /\ ret.value.sources = <<>>

C9_Witness ==
    /\ chunks = <<>>
    /\ ret.op = "get_context_for_query"
    /\ ret.args[2] >= 1
    /\ ret.value = [context |-> <<>>, sources |-> <<>>]
    /\ ret.calls = {}

RECURSIVE LengthOfFirst(_, _)
\* the summed length of the contents of the first m results
LengthOfFirst(results, m) ==
    IF m = 0 THEN 0 ELSE LengthOfFirst(results, m - 1) + Len(results[m].chunk.content)

\* C16: the chunks get_context_for_query includes are a best-first prefix of the
\* search results, each of them whole: the prefix ends before the first chunk
\* whose length would bring the accumulated length over max_context_length, and no
\* later chunk is included; sources has one entry per included chunk, in the same
\* order, with the source, the page and the (3-decimal) similarity of that chunk.
C16_ContextIsBestFirstPrefix ==
    (ret.op = "get_context_for_query" /\ ret.raised = "" /\ chunks # <<>>) =>
        LET results == search_results(index, chunks, ret.args[1], ret.args[2])
            m == Len(ret.value.sources)
        IN /\ m <= Len(results)
           /\ ret.value.context = Join([i \in 1..m |-> results[i].chunk.content], Delimiter)
           /\ LengthOfFirst(results, m) <= ret.args[3]
           /\ m < Len(results) => LengthOfFirst(results, m + 1) > ret.args[3]
           /\ \A i \in 1..m :
                ret.value.sources[i] = [source |-> results[i].chunk.metadata.source,
                                        page |-> results[i].chunk.metadata.page,
                                        similarity |-> Round3(results[i].similarity)]

\* a context of one chunk that ends at a chunk too long for it, although the chunk
\* ranked after that one would have fitted
C16_Witness ==
    /\ ret.op = "get_context_for_query"
    /\ ret.raised = ""
    /\ Len(chunks) = 3
    /\ ret.args[2] = 3
    /\ Len(ret.value.sources) = 1
    /\ LET results == search_results(index, chunks, ret.args[1], ret.args[2])
       IN /\ LengthOfFirst(results, 2) > ret.args[3]
          /\ Len(results[1].chunk.content) + Len(results[3].chunk.content) <= ret.args[3]

(***************************************************************************)
(* Claims about the session (SpecAgent).                                   *)
(***************************************************************************)
\* C10: a call of ask made while documents_loaded is empty returns the fixed
\* result (error "no_documents", confidence "low", no sources) without raising,
\* calls neither the embedding service, the vector store nor the completion
\* service, and leaves conversation_history and queries_processed as they were.
C10_AskWithoutDocuments ==
    [][(ret'.op = "ask" /\ documents_loaded = <<>>) =>
            /\ ret'.raised = ""
            /\ ret'.value = NoDocumentsResult
            /\ ret'.value.error = "no_documents"
            /\ ret'.value.confidence = "low"
            /\ ret'.value.sources = <<>>
            /\ ret'.calls = {}
            /\ UNCHANGED <<conversation_history, queries_processed, documents_loaded>>]_vars

\* ask has answered on a session that loaded no document but whose store was
\* filled by load_vector_store
C10_Witness ==
    /\ ret.op = "ask"
    /\ documents_loaded = <<>>
    /\ chunks # <<>>
    /\ ret.value.error = "no_documents"
    /\ ret.calls = {}

\* what retrieval from the store gives a call of ask of the arguments args, which
\* tell how the embedding service behaves; ask does not change the store
RetrievalOf(args) ==
    get_context_for_query(search(index, chunks, args[1], args[2], args[3]), MaxContextLength)

\* C11: when documents are loaded and retrieval ends with an empty context, ask
\* returns the fixed "no relevant information" result (confidence "none", no
\* sources, error "no_context"), does not call the completion service, and leaves
\* conversation_history and queries_processed as they were.
C11_AskWithoutContext ==
    [][(/\ ret'.op = "ask"
        /\ documents_loaded # <<>>
        /\ RetrievalOf(ret'.args).raised = ""
        /\ RetrievalOf(ret'.args).value.context = <<>>) =>
            /\ ret'.raised = ""
            /\ ret'.value = NoContextResult
            /\ ret'.value.confidence = "none"
            /\ ret'.value.sources = <<>>
            /\ Completion \notin ret'.calls
            /\ UNCHANGED <<conversation_history, queries_processed>>]_vars

\* ask has answered "no_context" from a store that is not empty: the best chunk is
\* longer than the context limit, and the completion service was ready to answer
C11_Witness ==
    /\ ret.op = "ask"
    /\ documents_loaded # <<>>
    /\ chunks # <<>>
    /\ ret.args[4]
    /\ RetrievalOf(ret.args).raised = ""
    /\ RetrievalOf(ret.args).value.context = <<>>
    /\ ret.value = NoContextResult

\* the call of ask of the arguments args reaches the completion service: documents
\* are loaded and retrieval gives a context that is not empty
ReachesCompletion(args) ==
    /\ documents_loaded # <<>>
    /\ RetrievalOf(args).raised = ""
    /\ RetrievalOf(args).value.context # <<>>

\* C12: when the completion service fails, ask does not raise; it returns a result
\* of confidence "error" with the error message in the answer and in the error
\* field and with no sources.  The call changes nothing of the session (history,
\* query counter, documents, store), so the session takes further calls as before.
C12_CompletionFailureReturned ==
    [][(ret'.op = "ask" /\ ReachesCompletion(ret'.args) /\ ~ret'.args[4]) =>
            /\ ret'.raised = ""
            /\ ret'.value.confidence = "error"
            /\ ret'.value.error = CompletionError
            /\ ret'.value.answer = <<"Error generating answer: ", CompletionError>>
            /\ ret'.value.sources = <<>>
            /\ Completion \in ret'.calls
            /\ UNCHANGED <<conversation_history, queries_processed>>
            /\ UNCHANGED <<documents_loaded, total_chunks, index, chunks, embeddings>>]_vars

\* ask has returned the error result of a failed completion
C12_Witness ==
    /\ ret.op = "ask"
    /\ ReachesCompletion(ret.args)
    /\ ~ret.args[4]
    /\ ret.raised = ""
    /\ ret.value.confidence = "error"
    /\ conversation_history = <<>>

\* the messages of Messages that hold a '?' or an interrogative keyword:
\* "Why", "a?" and "show" (which holds "how")
QuestionLike == {<<"W", "h", "y">>, <<"a", "?">>, <<"s", "h", "o", "w">>}

\* C17: chat(message) calls ask if and only if the message is question-like and
\* documents_loaded is not empty; every other message is answered by the general
\* handler without any call, so with no document loaded chat calls neither the
\* embedding nor the completion service and leaves conversation_history and
\* queries_processed as they were, whatever the message.
C17_ChatRoutesToAsk ==
    [][ret'.op = "chat" =>
            /\ "ask" \in ret'.calls <=>
                    (ret'.args[1] \in QuestionLike /\ documents_loaded # <<>>)
            /\ "ask" \notin ret'.calls =>
                    /\ ret'.raised = ""
                    /\ ret'.value = handle_general_message(ret'.args[1])
                    /\ ret'.value.kind \in {"greeting", "status", "help", "default"}
                    /\ ret'.calls = {}
                    /\ UNCHANGED <<conversation_history, queries_processed>>
            /\ documents_loaded = <<>> =>
                    /\ ret'.calls = {}
                    /\ UNCHANGED <<conversation_history, queries_processed>>]_vars

\* chat has answered the question "Why" from the general handler on a session that
\* loaded no document, although its store holds chunks (of a saved store)
C17_Witness ==
    /\ ret.op = "chat"
    /\ ret.args[1] = <<"W", "h", "y">>
    /\ documents_loaded = <<>>
    /\ chunks # <<>>
    /\ ret.value.kind = "default"
    /\ ret.calls = {}

(***************************************************************************)
(* Claims about questions and answers (SpecDialog).                        *)
(***************************************************************************)
\* C13: a call of ask that obtains a completion appends exactly one entry
\* {question, answer, sources, timestamp} at the end of conversation_history and
\* adds exactly 1 to queries_processed; the entries that were there stay as they
\* were and where they were, and documents_loaded, total_chunks and the vector
\* store are unchanged.
C13_AskAppendsOneEntry ==
    [][(ret'.op = "ask" /\ ReachesCompletion(ret'.args) /\ ret'.args[4]) =>
            /\ Len(conversation_history') = Len(conversation_history) + 1
            /\ SubSeq(conversation_history', 1, Len(conversation_history)) = conversation_history
            /\ conversation_history'[Len(conversation_history')] =
                    [question |-> ret'.args[1],
                     answer |-> CompletionText,
                     sources |-> RetrievalOf(ret'.args).value.sources,
                     timestamp |-> "now"]
            /\ ret'.value.answer = CompletionText
            /\ queries_processed' = queries_processed + 1
            /\ UNCHANGED <<documents_loaded, total_chunks, index, chunks, embeddings>>]_vars

\* ask has appended a second entry behind a different first one
C13_Witness ==
    /\ ret.op = "ask"
    /\ ret.raised = ""
    /\ ret.value.answer = CompletionText
    /\ Len(conversation_history) = 2
    /\ conversation_history[1] # conversation_history[2]
    /\ conversation_history[2].question = ret.args[1]
    /\ queries_processed = 2

\* process_document returns for the path: it raises nothing
Processed(path) ==
    process_document(path, chunk_size, chunk_overlap, min_chunk_size).raised = ""

SourceOf(path) ==
    process_document(path, chunk_size, chunk_overlap, min_chunk_size).metadata.source

\* C15: load_multiple_documents(paths) appends to documents_loaded the source name
\* of every document of paths that was processed successfully, in the order of
\* paths, and of no document that failed; and every chunk of the documents
\* processed successfully is in the vector store afterwards.
C15_BatchRecordsProcessed ==
    [][ret'.op = "load_multiple_documents" =>
            LET done == SelectSeq(ret'.args[1], Processed)
            IN /\ documents_loaded' =
                    documents_loaded \o [i \in 1..Len(done) |-> SourceOf(done[i])]
               /\ \A i \in 1..Len(done) :
                    Range(process_document(done[i], chunk_size, chunk_overlap,
                                           min_chunk_size).chunks) \subseteq Range(chunks')]_vars

\* C18: no two chunks held by the vector store have the same chunk_id, after any
\* sequence of load_document and load_multiple_documents calls (the same file
\* loaded twice and two files of one base name included).
C18_ChunkIdsDistinct ==
    \A i, j \in 1..Len(chunks) : i # j => chunks[i].chunk_id # chunks[j].chunk_id

(***************************************************************************)
(* Claims about the confidence estimate (SpecConfidence).                  *)
(***************************************************************************)
\* C14: with m the mean of the 3-decimal similarities of the sources, the
\* confidence is "high" iff m > 0.7, "medium" iff 0.5 < m <= 0.7 and "low" iff
\* m <= 0.5; a mean of exactly 0.7 gives "medium" and one of exactly 0.5 "low".
C14_ConfidenceBuckets ==
    ret.op = "confidence" =>
        LET total == SumSimilarity(ret.args[1])
            n == Len(ret.args[1])
        IN /\ ret.value = "high" <=> total > 700 * n
           /\ ret.value = "medium" <=> (500 * n < total /\ total <= 700 * n)
           /\ ret.value = "low" <=> total <= 500 * n

(***************************************************************************)
(* Claims about the HelloAdvisor memory (SpecAdvisor).                     *)
(***************************************************************************)
David == <<"D", "a", "v", "i", "d">>

\* C20: the memory a new agent imports from the export of an agent has the
\* user_preferences, the conversation_history, the interaction_count and the set of
\* topics_discussed of the exporting agent, and the greetings of the new agent use
\* the user name that was exported
C20_ImportRestoresMemory ==
    [][/\ ret'.op = "load_memory_import" =>
            /\ memory'.user_preferences = memory.user_preferences
            /\ memory'.conversation_history = memory.conversation_history
            /\ memory'.context.interaction_count = memory.context.interaction_count
            /\ memory'.context.topics_discussed = memory.context.topics_discussed
       /\ (/\ advisor = "new_agent"
           /\ ret'.op = "process_input"
           /\ ret'.value.kind = "greeting"
           /\ "user_name" \in DOMAIN exported.data.user_preferences) =>
            ret'.value.name = exported.data.user_preferences["user_name"]]_vars

\* the new agent greets David after importing a memory of several topics whose
\* history had lost its oldest turn
C20_Witness ==
    /\ advisor = "new_agent"
    /\ ret.op = "process_input"
    /\ ret.value.kind = "greeting"
    /\ ret.value.name = David
    /\ Cardinality(Range(exported.data.context.topics_discussed)) >= 2
    /\ exported.data.context.interaction_count > Len(exported.data.conversation_history)
    /\ "loves" \in DOMAIN memory.user_preferences

(***************************************************************************)
(* Claims about the MemoryManager (SpecMemory).                            *)
(***************************************************************************)
\* C21: the conversation history of a MemoryManager never holds more than
\* max_history_size turns, whatever add_interaction, clear and import_memory
\* calls were made
C21_HistoryWithinBound ==
    Len(memory.conversation_history) <= max_history_size

(***************************************************************************)
(* Claims about the session counters (SpecDialog, SpecAgent).              *)
(***************************************************************************)
\* C22: after load_document and load_multiple_documents calls in any order,
\* session_info.total_chunks is the number of chunks the vector store holds
C22_TotalChunksIsStoreSize ==
    total_chunks = Len(chunks)

\* the session loaded no PDF itself and holds the chunks of a saved store that
\* load_vector_store loaded with success (which sets total_chunks to their number)
HoldsLoadedStore ==
    /\ documents_loaded = <<>>
    /\ chunks # <<>>
    /\ total_chunks = Len(chunks)

\* C23: ask on a session that loaded no PDF itself and holds a saved store loaded
\* by load_vector_store performs retrieval on the store and does not answer
\* "no_documents"
C23_AskAnswersFromLoadedStore ==
    [][(ret'.op = "ask" /\ HoldsLoadedStore) =>
            /\ Retrieval \in ret'.calls
            /\ ret'.value # NoDocumentsResult]_vars

(***************************************************************************)
(* Claims about a load that fails (SpecFault).                             *)
(***************************************************************************)
\* C24: a load that raises leaves the index and the chunk list as they were
\* before the call, so the index still holds one vector per stored chunk
C24_FailedLoadChangesNothing ==
    [][(ret'.op = "load" /\ ret'.raised # "") =>
            /\ UNCHANGED <<index, chunks>>
            /\ Len(index') = Len(chunks')]_vars

(***************************************************************************)
(* Claims about the buffers of the chunker (SpecSentences, SpecChunk).     *)
(***************************************************************************)
\* the sentences a chunk was joined from: a sentence holds no terminator followed
\* by a space, and every sentence in front of the last of a chunk ends with one
SentencesOf(content) == split_sentences(content)

\* C25: every chunk chunk_text emits that consists of two or more sentences has
\* content length <= chunk_size; only a chunk of one sentence may be longer
C25_JoinedChunkWithinSize ==
    ret.op = "chunk_text" =>
        \A i \in 1..Len(ret.value) :
            Len(SentencesOf(ret.value[i].content)) >= 2 =>
                Len(ret.value[i].content) <= chunk_size

\* the content and the page of every chunk, in order
ContentsOf(cs) ==
    [i \in 1..Len(cs) |-> [content |-> cs[i].content, page |-> cs[i].metadata.page]]

\* every buffer the processor of the state closes for the text of the last call:
\* what it emits when no buffer is too short
BuffersOfCall ==
    ContentsOf(chunk_text_of(ret.args[1], ret.args[2], chunk_size, chunk_overlap, 0))

RECURSIVE Flatten(_)
Flatten(lists) == IF lists = <<>> THEN <<>> ELSE Head(lists) \o Flatten(Tail(lists))

\* the sentences of the pages of a text, page after page
PageSentences(text) ==
    LET pages == page_contents(text)
    IN Flatten([i \in 1..Len(pages) |-> split_sentences(clean_text(pages[i].page_text))])

\* part is a run of consecutive elements of whole
IsSegment(part, whole) ==
    \E i \in 0..(Len(whole) - Len(part)) : SubSeq(whole, i + 1, i + Len(part)) = part

\* C26: the chunks emitted are the closed buffers of joined length >=
\* min_chunk_size, as they are closed when none is dropped: a buffer that is too
\* short is dropped whole and changes no other buffer, every sentence is in one
\* buffer, and the sentences of a chunk are consecutive sentences of its own page
C26_ShortBuffersDropped ==
    ret.op = "chunk_text" =>
        LET buffers == BuffersOfCall
            pages == Range(page_contents(ret.args[1]))
        IN /\ ContentsOf(ret.value)
                 = SelectSeq(buffers, LAMBDA b : Len(b.content) >= min_chunk_size)
           /\ Flatten([i \in 1..Len(buffers) |-> SentencesOf(buffers[i].content)])
                 = PageSentences(ret.args[1])
           /\ \A i \in 1..Len(ret.value) :
                 \E page \in pages :
                     /\ page.page_num = ret.value[i].metadata.page
                     /\ IsSegment(SentencesOf(ret.value[i].content),
                                  split_sentences(clean_text(page.page_text)))

\* a buffer that was too short was dropped and a later buffer of the same page is
\* the one chunk emitted
C26_Witness ==
    /\ ret.op = "chunk_text"
    /\ \E i, j \in 1..Len(BuffersOfCall) :
          /\ i < j
          /\ BuffersOfCall[i].page = BuffersOfCall[j].page
          /\ Len(BuffersOfCall[i].content) < min_chunk_size
          /\ Len(BuffersOfCall[j].content) >= min_chunk_size
    /\ Len(ret.value) = 1

RECURSIVE IsSubsequence(_, _)
\* part is whole with some elements left out
IsSubsequence(part, whole) ==
    IF part = <<>> THEN TRUE
    ELSE IF whole = <<>> THEN FALSE
    ELSE IF Head(part) = Head(whole) THEN IsSubsequence(Tail(part), Tail(whole))
    ELSE IsSubsequence(part, Tail(whole))

C28_QueriesCountHistory ==
    queries_processed = Len(conversation_history)

\* clear_history has emptied a history that held an answer
C28_Witness ==
    /\ ret.op = "clear_history"
    /\ ret.value >= 1
    /\ conversation_history = <<>>
    /\ queries_processed = 0
    /\ chunks # <<>>

\* C29: when the embedding of the question fails during the retrieval of ask
\* (documents loaded, store not empty), ask raises nothing and returns a result
\* of confidence "error", and the history and the counter are as they were
C29_AskNeverRaises ==
    [][(/\ ret'.op = "ask"
        /\ documents_loaded # <<>>
        /\ chunks # <<>>
        /\ ~ret'.args[3]) =>
            /\ ret'.raised = ""
            /\ ret'.value.confidence = "error"
            /\ UNCHANGED <<conversation_history, queries_processed>>]_vars

(***************************************************************************)
(* Claims about the documents of a session (SpecAgent).                    *)
(***************************************************************************)
\* C30: documents_loaded only grows: every call leaves the entries it held in
\* front, in their order, so a session that holds a document never holds none
\* again; and a load_document that raises leaves documents_loaded, total_chunks
\* and the vector store as they were
C30_DocumentsOnlyGrow ==
    [][/\ Len(documents_loaded') >= Len(documents_loaded)
       /\ SubSeq(documents_loaded', 1, Len(documents_loaded)) = documents_loaded
       /\ documents_loaded # <<>> => documents_loaded' # <<>>
       /\ (ret'.op = "load_document" /\ ret'.raised # "") =>
            UNCHANGED <<documents_loaded, total_chunks, index, chunks, embeddings>>]_vars

\* load_document has raised on a session that holds a document and its chunks
C30_Witness ==
    /\ ret.op = "load_document"
    /\ ret.raised # ""
    /\ documents_loaded # <<>>
    /\ chunks # <<>>
    /\ total_chunks > 0

====
